---- MODULE Spec2Model ----
(***************************************************************************)
(* Model of the multi-viewer WebRTC broadcaster: SharedMediaPipeline,      *)
(* WebRTCPeer (src/src/shared_media_pipeline.cpp) and StreamManager        *)
(* (src/src/main.cpp).                                                     *)
(*                                                                         *)
(* Threads: "sig" is the signaling I/O thread, which runs every            *)
(* StreamManager handler to completion, one frame after the other; "main"  *)
(* sleeps in run() and then runs StreamManager::stop(); "gst" stands for   *)
(* the media framework's threads, which complete promises.  Specification  *)
(* SpecPeer drives one attached WebRTCPeer through its public methods from *)
(* several caller threads.                                                 *)
(***************************************************************************)
EXTENDS Integers, Sequences, FiniteSets, TLC

\* ---------------------------------------------------------------- bounds
MaxPeers == 2
MaxCand == 2

\* Viewer ids, in the key order std::map iterates them.
ViewerOrder == <<"A", "D">>
Viewers == {ViewerOrder[i] : i \in 1..Len(ViewerOrder)}
\* The k-th candidate signaling delivers for a viewer: candidates are told
\* apart by their number, and the mline index alternates 0, 1, 0, ...
CandidateAt(k) == [candidate |-> k, sdp_mline_index |-> (k - 1) % 2]
SdpInputs == {"valid", "malformed"}
Callers == {"t1", "t2"}

VARIABLES
    peers,          \* the heap: every WebRTCPeer ever allocated, by handle
    viewers_,       \* SharedMediaPipeline::viewers_, a set of <<id, handle>>
    viewer_peers_,  \* StreamManager::viewer_peers_, a set of <<id, handle>>
    is_running_,    \* SharedMediaPipeline::is_running_
    pipeline_,      \* SharedMediaPipeline::pipeline_ # nullptr
    mutex_,         \* holder of SharedMediaPipeline::mutex_
    sig,            \* the signaling thread: its handler and position
    main,           \* the main thread: its position in run()/stop()
    callers,        \* SpecPeer's caller threads
    left_mid,       \* viewers that left between their offer and their answer
    crashed,        \* the process died on a use of freed memory
    proc,           \* the process: startup log, bus errors, exit status
    turn,           \* CloudflareTurn and WebRTCPeer's static TURN settings
    flow,           \* media buffers in the per-viewer queues
    encoder,        \* the shared video encoder and forceKeyframe's callers
    client,         \* SignalingClient: its callbacks and the frames handled
    gst             \* webrtcbin's thread: the callback it runs, and on which peer

vars == <<peers, viewers_, viewer_peers_, is_running_, pipeline_, mutex_,
          sig, main, callers, left_mid, crashed, proc, turn, flow, encoder,
          client, gst>>

\* ------------------------------------------------------------- std::map
MapHas(m, k) == \E e \in m : e[1] = k
MapGet(m, k) == (CHOOSE e \in m : e[1] = k)[2]
MapPut(m, k, v) == {e \in m : e[1] # k} \cup {<<k, v>>}
MapErase(m, k) == {e \in m : e[1] # k}

\* ------------------------------------------------------------ WebRTCPeer
TeePads == {"video_tee_pad_", "audio_tee_pad_"}
SinkPads == {"webrtc_video_sink_", "webrtc_audio_sink_"}

\* WebRTCPeer::WebRTCPeer: every pointer null, nothing queued.
NewPeer(v, pipe) ==
    [ vid |-> v, alive |-> TRUE, pipeline_ |-> pipe,
      elems |-> {}, in_bin |-> FALSE, synced |-> {}, pads |-> {},
      probes |-> {}, links |-> {}, signals |-> FALSE,
      cleaned_up_ |-> FALSE, remote_description_set_ |-> FALSE,
      cleanup_mutex_ |-> "none",
      queued_ice_candidates_ |-> <<>>,
      \* what the framework saw
      received |-> <<>>, submitted |-> <<>>, flushed |-> FALSE,
      tee_ports |-> {}, over_released |-> FALSE,
      offer_pending |-> FALSE, offer_sent |-> FALSE, local_desc |-> FALSE,
      remote_applied |-> FALSE, flushed_n |-> 0,
      \* webrtcbin's properties
      ice_connection_state |-> "new", connection_state |-> "new",
      turn_server |-> <<>>, transceivers |-> 0,
      ice_candidate_callback_ |-> "none", callback_writing |-> FALSE,
      gathered |-> <<>> ]

\* The framework calls of initialize() that can fail, in program order.
InitSteps ==
    << "webrtcbin_", "video_queue_", "audio_queue_",
       "video_tee_pad_", "audio_tee_pad_",
       "webrtc_video_sink_", "webrtc_audio_sink_",
       "link_vq_wb", "link_aq_wb", "link_vt_vq", "link_at_aq" >>
FailPoints == {InitSteps[i] : i \in 1..Len(InitSteps)} \cup {"none"}

StepIndex(step) ==
    IF step = "none" THEN Len(InitSteps) + 1
    ELSE CHOOSE i \in 1..Len(InitSteps) : InitSteps[i] = step

\* WebRTCPeer::initialize with the framework call failAt failing ("none":
\* every call succeeds).  The peer is left as the early return leaves it.
initialize(p, failAt) ==
    LET k == StepIndex(failAt) IN
    [ p EXCEPT
        !.elems = IF k = 1 THEN {}
                  ELSE {"webrtcbin_"} \cup
                       {e \in {"video_queue_", "audio_queue_"} : failAt # e},
        \* gst_bin_add_many on a null bin adds nothing
        !.in_bin = (k > 3) /\ p.pipeline_,
        \* gst_element_sync_state_with_parent: an element without a parent
        \* stays as it is
        !.synced = IF k > 7 /\ p.pipeline_
                   THEN {"webrtcbin_", "video_queue_", "audio_queue_"}
                   ELSE {},
        !.pads = (IF k > 3 THEN {x \in TeePads : failAt # x} ELSE {}) \cup
                 (IF k > 5 THEN {x \in SinkPads : failAt # x} ELSE {}),
        !.tee_ports = IF k > 3 THEN {x \in TeePads : failAt # x} ELSE {},
        !.probes = (IF k > 7 THEN {"video_queue_src_probe_id_"} ELSE {}) \cup
                   (IF k > 9 THEN {"video_tee_probe_id_",
                                   "video_queue_sink_probe_id_"} ELSE {}),
        !.links = {InitSteps[i] : i \in {j \in 8..11 : j < k}},
        !.signals = (k = Len(InitSteps) + 1) ]

initializeOk(failAt) == failAt = "none"

\* cleanup(), lines 763-768: the candidate queue and the flag, under ice_mutex_.
CleanupIce(p) ==
    [ p EXCEPT !.queued_ice_candidates_ = <<>>,
               !.remote_description_set_ = FALSE ]

\* cleanup() up to and including "cleaned_up_ = true" (lines 754-776).
CleanupBegin(p) ==
    IF p.cleaned_up_ THEN p
    ELSE [ CleanupIce(p) EXCEPT !.cleaned_up_ = TRUE ]

\* Whether the call that CleanupBegin started goes on to the teardown.
CleanupContinues(p) == ~p.cleaned_up_ /\ p.pipeline_

\* cleanup(), lines 786-957: signals, probes, unlink, release, null, remove.
CleanupTeardown(p) ==
    LET vq == "video_queue_" \in p.elems
        aq == "audio_queue_" \in p.elems
        vt == "video_tee_pad_" \in p.pads
        at == "audio_tee_pad_" \in p.pads
        vs == "webrtc_video_sink_" \in p.pads
        as == "webrtc_audio_sink_" \in p.pads
        wb == "webrtcbin_" \in p.elems
    IN
    [ p EXCEPT
        !.signals = IF wb THEN FALSE ELSE p.signals,
        !.probes = p.probes \
                   ((IF vt THEN {"video_tee_probe_id_"} ELSE {}) \cup
                    (IF vq THEN {"video_queue_sink_probe_id_",
                                 "video_queue_src_probe_id_"} ELSE {})),
        !.links = p.links \
                  ((IF vt /\ vq THEN {"link_vt_vq"} ELSE {}) \cup
                   (IF vq /\ vs THEN {"link_vq_wb"} ELSE {}) \cup
                   (IF at /\ aq THEN {"link_at_aq"} ELSE {}) \cup
                   (IF aq /\ as THEN {"link_aq_wb"} ELSE {})),
        \* gst_element_release_request_pad on each tee pad still held
        !.tee_ports = p.tee_ports \ p.pads,
        !.over_released = p.over_released \/
                          ((p.pads \cap TeePads) \ p.tee_ports # {}),
        !.pads = (p.pads \ TeePads) \ (IF wb THEN SinkPads ELSE {}),
        !.elems = {},
        !.synced = {},
        !.in_bin = FALSE ]

\* One whole call of WebRTCPeer::cleanup.
cleanup(p) ==
    IF CleanupContinues(p) THEN CleanupTeardown(CleanupBegin(p))
    ELSE CleanupBegin(p)

\* Freed memory: what is left of a peer is what the framework still holds
\* for it (its ports on the tees); the object reads as a cleaned-up peer.
Freed(p) ==
    [ NewPeer(p.vid, p.pipeline_) EXCEPT
        !.alive = FALSE, !.cleaned_up_ = TRUE,
        !.tee_ports = p.tee_ports, !.over_released = p.over_released ]

\* delete peer: ~WebRTCPeer runs cleanup(), then the memory is freed.
DeletePeer(p) == Freed(cleanup(p))

\* g_signal_emit_by_name(webrtcbin_, "add-ice-candidate", ...): a null
\* instance emits nothing.
EmitAddIceCandidate(p, c) ==
    IF "webrtcbin_" \in p.elems
    THEN [ p EXCEPT !.submitted = Append(p.submitted, c) ]
    ELSE p

\* The mutation of C1: the candidate goes to the element whatever the flag.
addIceCandidateUngated(p, c) ==
    EmitAddIceCandidate([ p EXCEPT !.received = Append(p.received, c) ], c)
\* WebRTCPeer::addIceCandidate, the whole body under ice_mutex_.
addIceCandidate(p, c) ==
    LET q == [ p EXCEPT !.received = Append(p.received, c) ] IN
    IF ~q.remote_description_set_
    THEN [ q EXCEPT !.queued_ice_candidates_ =
                        Append(q.queued_ice_candidates_, c) ]
    ELSE EmitAddIceCandidate(q, c)

RECURSIVE EmitAll(_, _)
EmitAll(p, cs) ==
    IF cs = <<>> THEN p
    ELSE EmitAll(EmitAddIceCandidate(p, Head(cs)), Tail(cs))

\* The mutation of C39: the flush emits the queued candidates and leaves them
\* in the queue.
processQueuedIceCandidatesKept(p) ==
    [ EmitAll(p, p.queued_ice_candidates_) EXCEPT
        !.flushed = TRUE,
        !.flushed_n = Len(p.queued_ice_candidates_) ]
\* WebRTCPeer::processQueuedIceCandidates, the whole body under ice_mutex_.
processQueuedIceCandidates(p) ==
    [ EmitAll(p, p.queued_ice_candidates_) EXCEPT
        !.queued_ice_candidates_ = <<>>,
        !.flushed = TRUE,
        !.flushed_n = Len(p.queued_ice_candidates_) ]

\* setRemoteAnswer, lines 1085-1098: gst_promise_wait returns with result res
\* and the flag is stored, whatever res is.
SetRemoteStore(p, res) ==
    [ p EXCEPT !.remote_description_set_ = TRUE,
               !.remote_applied = p.remote_applied \/ (res = "replied") ]

\* What set-remote-description answers for an SDP: a parseable answer on a
\* session that holds a local offer is applied; anything else is refused
\* (the promise is replied with an error); an element that was shut down
\* meanwhile lets the promise expire.
SetRemoteResult(p, sdp) ==
    IF ~("webrtcbin_" \in p.elems /\ p.in_bin) THEN "expired"
    ELSE IF sdp = "valid" /\ p.local_desc THEN "replied"
    ELSE "rejected"

\* ------------------------------------------------- SharedMediaPipeline
\* The mutation of C4: the lookup never finds the viewer.
ViewerExistsNever(m, v) == FALSE
\* addViewer, lines 333-338: the lookup that makes a repeated join return
\* the existing peer.
ViewerExists(m, v) == MapHas(m, v)

\* removeViewer, lines 370-377: delete the peer and erase its record.
RemoveViewerPeers(ps, m, v) ==
    IF MapHas(m, v)
    THEN [ps EXCEPT ![MapGet(m, v)] = DeletePeer(ps[MapGet(m, v)])]
    ELSE ps
RemoveViewerMap(m, v) == MapErase(m, v)

\* forceKeyframe, lines 242-258: one force-key-unit request to the encoder.
forceKeyframe(n) == n + 1

\* --------------------------------------------------------------- threads
SigIdle == [ pc |-> "idle", type |-> "none", vid |-> "", h |-> 0,
             sdp |-> "", effects |-> {}, kf |-> 0,
             \* createOffer: its loop counter, the polls it made, the
             \* count it read last and the create-offer requests it made
             wait_count |-> 0, polls |-> 0, count |-> 0, requests |-> 0 ]

\* A handler of the signaling thread starts: the frame it was handed.
SigStart(type, v) == [ SigIdle EXCEPT !.type = type, !.vid = v ]

\* A handler is about to return to the I/O loop.
SigDone(type, v) == [ SigStart(type, v) EXCEPT !.pc = "ret" ]

Handles == 1..Len(peers)

RECURSIVE ReceivedUpTo(_)
ReceivedUpTo(h) ==
    IF h = 0 THEN 0 ELSE Len(peers[h].received) + ReceivedUpTo(h - 1)
\* Candidates signaling has delivered so far.
Delivered == ReceivedUpTo(Len(peers))

\* A peer is wired into the running graph: its element can execute requests.
ElementLive(p) == "webrtcbin_" \in p.elems /\ p.in_bin

\* The process after StreamManager::start() returned true.
ProcStarted ==
    [ log |-> <<"initialize", "start", "connect", "register">>,
      bus_error |-> FALSE, exit_code |-> -1 ]

\* std::string: a sequence of tokens; ":", "/", "?" and "@" are tokens of
\* their own, so that find() and substr() see them.
\* find(pat): the first position of pat, 0 for npos.
Find(s, pat) ==
    LET hits == { i \in 1..(Len(s) - Len(pat) + 1) :
                    SubSeq(s, i, i + Len(pat) - 1) = pat }
    IN IF hits = {} THEN 0
       ELSE CHOOSE i \in hits : \A j \in hits : i <= j

\* find(pat) == 0 in the code: the string begins with pat.
StartsWith(s, pat) == Find(s, pat) = 1

\* substr(from) with positions counted from 1.
Substr(s, from) == SubSeq(s, from, Len(s))

\* getTurnUri, lines 311-313: leading slashes are removed.
RECURSIVE StripSlashes(_)
StripSlashes(s) ==
    IF s # <<>> /\ s[1] = "/" THEN StripSlashes(Tail(s)) ELSE s

\* One entry of "urls" in the issuer's answer, as text:
\* scheme:turn.cloudflare.com:port[?transport=t].
Url(scheme, port, transport) ==
    <<scheme, ":", "turn.cloudflare.com", ":", port>> \o
    (IF transport = "none" THEN <<>> ELSE <<"?", "transport=", transport>>)

\* The urls the issuer lists when nothing else is said (the format in the
\* comment of parseResponse).
IssuerUrls ==
    << Url("stun", "3478", "none"), Url("turn", "3478", "udp"),
       Url("turns", "5349", "tcp") >>

\* parseResponse, lines 272-277: the URIs used when none was selected.
DefaultTurnUri == Url("turn", "3478", "none")
DefaultTurnsUri == Url("turns", "5349", "none")

\* The environment and the .env file with none of the TURN settings.
NoEnv ==
    [ keys |-> FALSE,
      file_ttl |-> [kind |-> "unset", n |-> 0],
      env_ttl |-> [kind |-> "unset", n |-> 0],
      TURN_SERVER |-> <<>>, TURN_USERNAME |-> <<>>, TURN_PASSWORD |-> <<>> ]

\* Credentials{}: a default-constructed value.
NoCredentials ==
    [ username |-> <<>>, password |-> <<>>,
      turn_uri |-> <<>>, turns_uri |-> <<>>, expires_at |-> 0,
      valid |-> FALSE ]

\* A thread's place in getCredentials; waited records that it stood at the
\* lock while another thread's request was in flight, outcome how its call
\* was answered.
TurnIdle ==
    [ pc |-> "idle", kind |-> "none", result |-> NoCredentials,
      waited |-> FALSE, outcome |-> "none", vid |-> "" ]

\* No TURN service configured: CloudflareTurn and the static TURN members
\* of WebRTCPeer as they are initialised.
TurnOff ==
    [ configured_ |-> FALSE, ttl_seconds |-> 0,
      credentials_ |-> NoCredentials,
      mutex_ |-> "none", now |-> 0,
      turn_configured_ |-> FALSE, use_cloudflare_turn_ |-> FALSE,
      turn_config_ |-> [uri |-> <<>>, username |-> <<>>, password |-> <<>>],
      env |-> NoEnv, response |-> IssuerUrls, request_ttl |-> <<>>,
      stage |-> "run",
      th |-> [t \in Callers |-> TurnIdle] ]

\* The peers whose branches of the tees are followed, and the two streams.
FlowPeers == {1, 2}
Kinds == {"video", "audio"}

\* createPipeline, line 162: x264enc ... key-int-max=30.
KeyIntMax == 30

\* The callbacks of SignalingClient, in the order in which StreamManager
\* registers them (main.cpp:27-41).
CallbackOrder ==
    <<"on_viewer_joined_", "on_answer_", "on_ice_candidate_",
      "on_viewer_left_">>
AllCallbacks == {CallbackOrder[i] : i \in 1..Len(CallbackOrder)}

\* SignalingClient with its four callbacks registered and no frame
\* received yet.
\* webrtcbin's thread runs no callback.
GstIdle == [ pc |-> "idle", h |-> 0, sdp |-> "" ]

ClientReady == [ callbacks |-> AllCallbacks, log |-> <<>>, sent |-> <<>> ]

\* The encoder as createPipeline leaves it, video_encoder_ referring to it,
\* and no thread inside forceKeyframe.
EncoderReady ==
    [ present |-> TRUE, key_int_max |-> KeyIntMax,
      timers |-> <<>>, events |-> 0, calls |-> 0, restored |-> 0,
      overlapped |-> FALSE,
      th |-> [t \in Callers |->
                [pc |-> "idle", accepted |-> FALSE, current_key_int |-> 0]] ]

\* No media buffer pushed yet: the queues of the branches are empty.
FlowEmpty ==
    [ dur |-> [video |-> 33, audio |-> 20],
      pushed |-> [k \in Kinds |-> 0],
      tee_blocked |-> [k \in Kinds |-> FALSE],
      q |-> [h \in FlowPeers |-> [k \in Kinds |-> <<>>]],
      out |-> [h \in FlowPeers |-> [k \in Kinds |-> 0]],
      lost |-> [h \in FlowPeers |-> [k \in Kinds |-> 0]] ]

Init ==
    /\ peers = <<>>
    /\ viewers_ = {}
    /\ viewer_peers_ = {}
    /\ is_running_ = TRUE
    /\ pipeline_ = TRUE
    /\ mutex_ = "none"
    /\ sig = SigIdle
    /\ main = [pc |-> "run", h |-> 0]
    /\ callers = [t \in Callers |-> [pc |-> "off", sdp |-> ""]]
    /\ left_mid = {}
    /\ crashed = FALSE
    /\ proc = ProcStarted
    /\ turn = TurnOff
    /\ flow = FlowEmpty
    /\ encoder = EncoderReady
    /\ client = ClientReady
    /\ gst = GstIdle

\* StreamManager::onViewerJoined, line 140: SharedMediaPipeline::addViewer,
\* the whole call under mutex_.
SigViewerJoined ==
    /\ ~crashed /\ sig.pc = "idle" /\ mutex_ = "none"
    /\ \E v \in Viewers :
        /\ left_mid' = left_mid \ {v}
        /\ IF ViewerExists(viewers_, v)
           THEN /\ sig' = [SigStart("viewer-joined", v) EXCEPT
                              !.pc = "join_offer", !.h = MapGet(viewers_, v)]
                /\ UNCHANGED <<peers, viewers_>>
           ELSE /\ Len(peers) < MaxPeers
                /\ \E failAt \in FailPoints :
                     LET p == initialize(NewPeer(v, pipeline_), failAt)
                         h == Len(peers) + 1
                     IN IF initializeOk(failAt)
                        THEN /\ peers' = Append(peers, p)
                             /\ viewers_' = MapPut(viewers_, v, h)
                             /\ sig' = [SigStart("viewer-joined", v) EXCEPT
                                           !.pc = "join_offer", !.h = h]
                        ELSE /\ peers' = Append(peers, DeletePeer(p))
                             /\ viewers_' = viewers_
                             /\ sig' = SigDone("viewer-joined", v)
    /\ UNCHANGED <<viewer_peers_, is_running_, pipeline_, mutex_, main,
                   callers, crashed,
                   proc, turn, flow, encoder, client, gst>>

\* onViewerJoined, lines 147-159: the callbacks, createOffer (the create-offer
\* request is emitted on webrtcbin_) and the insertion into viewer_peers_.
\* On a peer that stop() deleted meanwhile this is a use of freed memory.
SigViewerJoinedOffer ==
    /\ ~crashed /\ sig.pc = "join_offer"
    /\ LET p == peers[sig.h] IN
       \/ /\ peers' = [peers EXCEPT ![sig.h].offer_pending =
                           p.offer_pending \/ ("webrtcbin_" \in p.elems)]
          /\ viewer_peers_' = MapPut(viewer_peers_, sig.vid, sig.h)
          /\ sig' = [sig EXCEPT !.pc = "ret"]
          /\ crashed' = crashed
       \/ /\ ~p.alive
          /\ crashed' = TRUE
          /\ UNCHANGED <<peers, viewer_peers_, sig>>
    /\ UNCHANGED <<viewers_, is_running_, pipeline_, mutex_, main, callers,
                   left_mid,
                   proc, turn, flow, encoder, client, gst>>

\* WebRTCPeer::onOfferCreated on a framework thread: the create-offer promise
\* is answered, the offer set as local description and handed to
\* offer_callback_, which sends it to the viewer.
GstOfferCreated ==
    /\ ~crashed
    /\ \E h \in Handles :
        /\ peers[h].offer_pending /\ peers[h].alive /\ ElementLive(peers[h])
        /\ peers' = [peers EXCEPT ![h].offer_pending = FALSE,
                                  ![h].local_desc = TRUE,
                                  ![h].offer_sent = TRUE]
    /\ UNCHANGED <<viewers_, viewer_peers_, is_running_, pipeline_, mutex_,
                   sig, main, callers, left_mid, crashed,
                   proc, turn, flow, encoder, client, gst>>

\* StreamManager::onAnswer, lines 168-170, and setRemoteAnswer up to the
\* emission of set-remote-description (line 1082).  A null webrtcbin_ emits
\* nothing, the promise is never answered and gst_promise_wait does not
\* return.
SigAnswer ==
    /\ ~crashed /\ sig.pc = "idle"
    /\ \E v \in Viewers, sdp \in SdpInputs :
        IF ~MapHas(viewer_peers_, v)
        THEN /\ sig' = SigDone("answer", v)
             /\ crashed' = crashed
        ELSE LET h == MapGet(viewer_peers_, v)
                 p == peers[h]
             IN \/ /\ sig' = [SigStart("answer", v) EXCEPT
                                !.h = h, !.sdp = sdp,
                                !.pc = IF "webrtcbin_" \in p.elems
                                       THEN "sra_wait" ELSE "hung",
                                !.effects = IF "webrtcbin_" \in p.elems
                                            THEN {"set-remote-description"}
                                            ELSE {}]
                   /\ crashed' = crashed
                \/ /\ ~p.alive
                   /\ crashed' = TRUE
                   /\ sig' = sig
    /\ UNCHANGED <<peers, viewers_, viewer_peers_, is_running_, pipeline_,
                   mutex_, main, callers, left_mid,
                   proc, turn, flow, encoder, client, gst>>

\* setRemoteAnswer, lines 1085-1098: gst_promise_wait returns and the flag
\* is stored.
SigAnswerStore ==
    /\ ~crashed /\ sig.pc = "sra_wait"
    /\ LET p == peers[sig.h] IN
       \/ /\ peers' = [peers EXCEPT ![sig.h] =
                          SetRemoteStore(p, SetRemoteResult(p, sig.sdp))]
          /\ sig' = [sig EXCEPT !.pc = "sra_flush"]
          /\ crashed' = crashed
       \/ /\ ~p.alive
          /\ crashed' = TRUE
          /\ UNCHANGED <<peers, sig>>
    /\ UNCHANGED <<viewers_, viewer_peers_, is_running_, pipeline_, mutex_,
                   main, callers, left_mid,
                   proc, turn, flow, encoder, client, gst>>

\* setRemoteAnswer, line 1102: processQueuedIceCandidates.
SigAnswerFlush ==
    /\ ~crashed /\ sig.pc = "sra_flush"
    /\ LET p == peers[sig.h]
           q == processQueuedIceCandidates(p)
       IN
       \/ /\ peers' = [peers EXCEPT ![sig.h] = q]
          /\ sig' = [sig EXCEPT !.pc = "ans_kf",
                                !.effects = IF q.submitted # p.submitted
                                            THEN @ \cup {"add-ice-candidate"}
                                            ELSE @]
          /\ crashed' = crashed
       \/ /\ ~p.alive
          /\ crashed' = TRUE
          /\ UNCHANGED <<peers, sig>>
    /\ UNCHANGED <<viewers_, viewer_peers_, is_running_, pipeline_, mutex_,
                   main, callers, left_mid,
                   proc, turn, flow, encoder, client, gst>>

\* onAnswer, line 174: forceKeyframe, then the handler returns.
SigAnswerKeyframe ==
    /\ ~crashed /\ sig.pc = "ans_kf"
    /\ sig' = [sig EXCEPT !.pc = "ret", !.kf = forceKeyframe(sig.kf),
                          !.effects = @ \cup {"force_keyframe"}]
    /\ UNCHANGED <<peers, viewers_, viewer_peers_, is_running_, pipeline_,
                   mutex_, main, callers, left_mid, crashed,
                   proc, turn, flow, encoder, client, gst>>

\* StreamManager::onIceCandidate.
SigIceCandidate ==
    /\ ~crashed /\ sig.pc = "idle"
    /\ \E v \in Viewers :
        IF ~MapHas(viewer_peers_, v)
        THEN /\ sig' = SigDone("ice-candidate", v)
             /\ UNCHANGED <<peers, crashed>>
        ELSE LET h == MapGet(viewer_peers_, v)
                 p == peers[h]
                 q == addIceCandidate(p, CandidateAt(Len(p.received) + 1))
             IN /\ Delivered < MaxCand
                /\ \/ /\ peers' = [peers EXCEPT ![h] = q]
                      /\ sig' = [SigDone("ice-candidate", v) EXCEPT
                                   !.h = h,
                                   !.effects =
                                      IF q.submitted # p.submitted
                                      THEN {"add-ice-candidate"}
                                      ELSE {}]
                      /\ crashed' = crashed
                   \/ /\ ~p.alive
                      /\ crashed' = TRUE
                      /\ UNCHANGED <<peers, sig>>
    /\ UNCHANGED <<viewers_, viewer_peers_, is_running_, pipeline_, mutex_,
                   main, callers, left_mid,
                   proc, turn, flow, encoder, client, gst>>

\* A viewer's handshake is between its offer and its answer.
MidHandshake(v) ==
    /\ MapHas(viewer_peers_, v)
    /\ peers[MapGet(viewer_peers_, v)].offer_sent
    /\ ~peers[MapGet(viewer_peers_, v)].flushed

\* The mutation of C8: onViewerLeft forgets its own map.
EraseViewerPeerKept(m, v) == m
\* onViewerLeft, line 192: viewer_peers_.erase(viewer_id).
EraseViewerPeer(m, v) == MapErase(m, v)

\* StreamManager::onViewerLeft: removeViewer under mutex_, then the erase
\* from viewer_peers_.
SigViewerLeft ==
    /\ ~crashed /\ sig.pc = "idle" /\ mutex_ = "none"
    /\ \E v \in Viewers :
        /\ peers' = RemoveViewerPeers(peers, viewers_, v)
        /\ viewers_' = RemoveViewerMap(viewers_, v)
        /\ viewer_peers_' = EraseViewerPeer(viewer_peers_, v)
        /\ left_mid' = IF MidHandshake(v) THEN left_mid \cup {v}
                       ELSE left_mid
        /\ sig' = SigDone("viewer-left", v)
    /\ UNCHANGED <<is_running_, pipeline_, mutex_, main, callers, crashed,
                   proc, turn, flow, encoder, client, gst>>

\* The handler returns to the I/O loop, which takes the next frame.
SigReturn ==
    /\ ~crashed /\ sig.pc = "ret"
    /\ sig' = SigIdle
    /\ UNCHANGED <<peers, viewers_, viewer_peers_, is_running_, pipeline_,
                   mutex_, main, callers, left_mid, crashed,
                   proc, turn, flow, encoder, client, gst>>

\* The record stop()'s loop over viewers_ visits next, in key order: the
\* first one whose peer it has not deleted yet (0: none is left).
VisitNext ==
    LET left == {i \in 1..Len(ViewerOrder) :
                    /\ MapHas(viewers_, ViewerOrder[i])
                    /\ peers[MapGet(viewers_, ViewerOrder[i])].alive}
    IN IF left = {} THEN 0
       ELSE MapGet(viewers_,
                   ViewerOrder[CHOOSE i \in left : \A j \in left : i <= j])

\* StreamManager::stop, line 115: SharedMediaPipeline::stop takes mutex_ and
\* finds the pipeline running.
MainStop ==
    /\ ~crashed /\ main.pc = "run" /\ mutex_ = "none"
    /\ mutex_' = "main"
    /\ main' = [pc |-> "stop_loop", h |-> 0]
    /\ UNCHANGED <<peers, viewers_, viewer_peers_, is_running_, pipeline_,
                   sig, callers, left_mid, crashed,
                   proc, turn, flow, encoder, client, gst>>

\* stop(), line 311: pair.second->cleanup(), up to cleaned_up_ = true.
MainStopCleanup ==
    /\ ~crashed /\ main.pc = "stop_loop"
    /\ VisitNext # 0
    /\ peers' = [peers EXCEPT ![VisitNext] = CleanupBegin(peers[VisitNext])]
    /\ main' = [pc |-> IF CleanupContinues(peers[VisitNext])
                       THEN "stop_teardown" ELSE "stop_delete",
                h |-> VisitNext]
    /\ UNCHANGED <<viewers_, viewer_peers_, is_running_, pipeline_, mutex_,
                   sig, callers, left_mid, crashed,
                   proc, turn, flow, encoder, client, gst>>

\* stop(), line 311: the teardown of that cleanup() call.
MainStopTeardown ==
    /\ ~crashed /\ main.pc = "stop_teardown"
    /\ peers' = [peers EXCEPT ![main.h] = CleanupTeardown(peers[main.h])]
    /\ main' = [main EXCEPT !.pc = "stop_delete"]
    /\ UNCHANGED <<viewers_, viewer_peers_, is_running_, pipeline_, mutex_,
                   sig, callers, left_mid, crashed,
                   proc, turn, flow, encoder, client, gst>>

\* stop(), line 312: delete pair.second.
MainStopDelete ==
    /\ ~crashed /\ main.pc = "stop_delete"
    /\ peers' = [peers EXCEPT ![main.h] = DeletePeer(peers[main.h])]
    /\ main' = [pc |-> "stop_loop", h |-> 0]
    /\ UNCHANGED <<viewers_, viewer_peers_, is_running_, pipeline_, mutex_,
                   sig, callers, left_mid, crashed,
                   proc, turn, flow, encoder, client, gst>>

\* stop(), lines 314-323: the map is cleared, the pipeline set to NULL and
\* released, is_running_ reset; the lock is dropped on return.
MainStopFinish ==
    /\ ~crashed /\ main.pc = "stop_loop"
    /\ VisitNext = 0
    /\ viewers_' = {}
    /\ pipeline_' = FALSE
    /\ is_running_' = FALSE
    /\ mutex_' = "none"
    /\ main' = [pc |-> "clear_peers", h |-> 0]
    /\ UNCHANGED <<peers, viewer_peers_, sig, callers, left_mid, crashed,
                   proc, turn, flow, encoder, client, gst>>

\* StreamManager::stop, line 118: viewer_peers_.clear().
MainClearPeers ==
    /\ ~crashed /\ main.pc = "clear_peers"
    /\ viewer_peers_' = {}
    /\ main' = [main EXCEPT !.pc = "disconnect"]
    /\ UNCHANGED <<peers, viewers_, is_running_, pipeline_, mutex_, sig,
                   callers, left_mid, crashed,
                   proc, turn, flow, encoder, client, gst>>

\* StreamManager::stop, line 121: SignalingClient::disconnect stops the I/O
\* loop and joins its thread, which returns once the running handler has.
MainDisconnect ==
    /\ ~crashed /\ main.pc = "disconnect" /\ sig.pc = "idle"
    /\ sig' = [sig EXCEPT !.pc = "stopped"]
    /\ main' = [main EXCEPT !.pc = "destroy"]
    /\ UNCHANGED <<peers, viewers_, viewer_peers_, is_running_, pipeline_,
                   mutex_, callers, left_mid, crashed,
                   proc, turn, flow, encoder, client, gst>>

\* main returns 0 (main.cpp:306): ~SharedMediaPipeline calls stop() once
\* more, which finds is_running_ false and returns at line 304.
MainDestroy ==
    /\ ~crashed /\ main.pc = "destroy" /\ mutex_ = "none"
    /\ ~is_running_
    /\ main' = [main EXCEPT !.pc = "exited"]
    /\ proc' = [proc EXCEPT !.exit_code = 0]
    /\ UNCHANGED <<peers, viewers_, viewer_peers_, is_running_, pipeline_,
                   mutex_, sig, callers, left_mid, crashed, turn, flow, encoder, client,
                   gst>>

Next ==
    \/ SigViewerJoined
    \/ SigViewerJoinedOffer
    \/ GstOfferCreated
    \/ SigAnswer
    \/ SigAnswerStore
    \/ SigAnswerFlush
    \/ SigAnswerKeyframe
    \/ SigIceCandidate
    \/ SigViewerLeft
    \/ SigReturn
    \/ MainStop
    \/ MainStopCleanup
    \/ MainStopTeardown
    \/ MainStopDelete
    \/ MainStopFinish
    \/ MainClearPeers
    \/ MainDisconnect
    \/ MainDestroy

Spec == Init /\ [][Next]_vars

\* ------------------------------------------- one peer, several callers
\* A peer that was attached and whose offer went out, with every caller
\* thread outside the peer's methods.
InitPeer ==
    /\ peers = << [ initialize(NewPeer("A", TRUE), "none") EXCEPT
                      !.offer_sent = TRUE, !.local_desc = TRUE ] >>
    /\ viewers_ = {<<"A", 1>>}
    /\ viewer_peers_ = {<<"A", 1>>}
    /\ is_running_ = TRUE
    /\ pipeline_ = TRUE
    /\ mutex_ = "none"
    /\ sig = SigIdle
    /\ main = [pc |-> "run", h |-> 0]
    /\ callers = [t \in Callers |-> [pc |-> "idle", sdp |-> ""]]
    /\ left_mid = {}
    /\ crashed = FALSE
    /\ proc = ProcStarted
    /\ turn = TurnOff
    /\ flow = FlowEmpty
    /\ encoder = EncoderReady
    /\ client = ClientReady
    /\ gst = GstIdle

\* A thread calls WebRTCPeer::addIceCandidate: one critical section of
\* ice_mutex_.
CallAddIceCandidate ==
    /\ \E t \in Callers :
        /\ callers[t].pc = "idle"
        /\ Len(peers[1].received) < MaxCand
        /\ peers' = [peers EXCEPT ![1] =
                        addIceCandidate(peers[1],
                                        CandidateAt(Len(peers[1].received) + 1))]
    /\ UNCHANGED <<viewers_, viewer_peers_, is_running_, pipeline_, mutex_,
                   sig, main, callers, left_mid, crashed,
                   proc, turn, flow, encoder, client, gst>>

\* A thread calls WebRTCPeer::setRemoteAnswer: set-remote-description is
\* emitted and the thread waits on the promise (lines 1080-1085).
CallSetRemoteAnswer ==
    /\ \E t \in Callers, sdp \in SdpInputs :
        /\ callers[t].pc = "idle"
        /\ callers' = [callers EXCEPT ![t] = [pc |-> "sra_wait", sdp |-> sdp]]
    /\ UNCHANGED <<peers, viewers_, viewer_peers_, is_running_, pipeline_,
                   mutex_, sig, main, left_mid, crashed,
                   proc, turn, flow, encoder, client, gst>>

\* setRemoteAnswer, line 1098: remote_description_set_.store(true), with no
\* lock held.
CallSetRemoteStore ==
    /\ \E t \in Callers :
        /\ callers[t].pc = "sra_wait"
        /\ peers' = [peers EXCEPT ![1] =
                        SetRemoteStore(peers[1],
                                       SetRemoteResult(peers[1], callers[t].sdp))]
        /\ callers' = [callers EXCEPT ![t].pc = "sra_flush"]
    /\ UNCHANGED <<viewers_, viewer_peers_, is_running_, pipeline_, mutex_,
                   sig, main, left_mid, crashed,
                   proc, turn, flow, encoder, client, gst>>

\* setRemoteAnswer, line 1102: processQueuedIceCandidates takes ice_mutex_,
\* flushes, and the call returns.
CallSetRemoteFlush ==
    /\ \E t \in Callers :
        /\ callers[t].pc = "sra_flush"
        /\ peers' = [peers EXCEPT ![1] = processQueuedIceCandidates(peers[1])]
        /\ callers' = [callers EXCEPT ![t] = [pc |-> "idle", sdp |-> ""]]
    /\ UNCHANGED <<viewers_, viewer_peers_, is_running_, pipeline_, mutex_,
                   sig, main, left_mid, crashed,
                   proc, turn, flow, encoder, client, gst>>

NextPeer ==
    \/ CallAddIceCandidate
    \/ CallSetRemoteAnswer
    \/ CallSetRemoteStore
    \/ CallSetRemoteFlush

SpecPeer == InitPeer /\ [][NextPeer]_vars

\* ------------------------------------------------- connection watching
\* WebRTCPeer::onIceConnectionStateChange: webrtcbin notifies that its
\* ice-connection-state became "failed"; the callback reads the property
\* and logs it.
GstIceConnectionFailed ==
    /\ ~crashed
    /\ \E h \in Handles :
        /\ peers[h].alive /\ peers[h].signals /\ ElementLive(peers[h])
        /\ peers[h].flushed
        /\ peers[h].ice_connection_state # "failed"
        /\ peers' = [peers EXCEPT ![h].ice_connection_state = "failed"]
    /\ UNCHANGED <<viewers_, viewer_peers_, is_running_, pipeline_, mutex_,
                   sig, main, callers, left_mid, crashed, proc, turn, flow, encoder,
          client, gst>>

\* WebRTCPeer::onConnectionStateChange: the same for connection-state.
GstConnectionFailed ==
    /\ ~crashed
    /\ \E h \in Handles :
        /\ peers[h].alive /\ peers[h].signals /\ ElementLive(peers[h])
        /\ peers[h].flushed
        /\ peers[h].connection_state # "failed"
        /\ peers' = [peers EXCEPT ![h].connection_state = "failed"]
    /\ UNCHANGED <<viewers_, viewer_peers_, is_running_, pipeline_, mutex_,
                   sig, main, callers, left_mid, crashed, proc, turn, flow, encoder,
          client, gst>>

\* The steps a started handler or callback takes by itself; frames from
\* the network and state changes of a connection are up to the peers.
SigProgress ==
    \/ SigViewerJoinedOffer
    \/ SigAnswerStore
    \/ SigAnswerFlush
    \/ SigAnswerKeyframe
    \/ SigReturn
    \/ GstOfferCreated

\* The broadcaster while it serves viewers (main sleeps in run()).
NextWatch ==
    \/ SigViewerJoined
    \/ SigViewerJoinedOffer
    \/ GstOfferCreated
    \/ SigAnswer
    \/ SigAnswerStore
    \/ SigAnswerFlush
    \/ SigAnswerKeyframe
    \/ SigViewerLeft
    \/ SigReturn
    \/ GstIceConnectionFailed
    \/ GstConnectionFailed

SpecWatch == Init /\ [][NextWatch]_vars /\ WF_vars(SigProgress)

\* ------------------------------------------------------- pipeline bus
\* bus_callback, case GST_MESSAGE_ERROR: an element of the shared pipeline
\* posted an error; the callback logs it and keeps the watch.
GstBusError ==
    /\ ~crashed /\ pipeline_
    /\ ~proc.bus_error
    /\ proc' = [proc EXCEPT !.bus_error = TRUE]
    /\ UNCHANGED <<peers, viewers_, viewer_peers_, is_running_, pipeline_,
                   mutex_, sig, main, callers, left_mid, crashed, turn, flow, encoder, client,
                   gst>>

\* What stop() does by itself once the shutdown signal made run() return.
MainProgress ==
    \/ MainStopCleanup
    \/ MainStopTeardown
    \/ MainStopDelete
    \/ MainStopFinish
    \/ MainClearPeers
    \/ MainDisconnect
    \/ MainDestroy

NextBus ==
    \/ GstBusError
    \/ SigViewerJoined
    \/ SigViewerJoinedOffer
    \/ GstOfferCreated
    \/ SigAnswer
    \/ SigAnswerStore
    \/ SigAnswerFlush
    \/ SigAnswerKeyframe
    \/ SigIceCandidate
    \/ SigViewerLeft
    \/ SigReturn
    \/ MainStop
    \/ MainStopCleanup
    \/ MainStopTeardown
    \/ MainStopDelete
    \/ MainStopFinish
    \/ MainClearPeers
    \/ MainDisconnect
    \/ MainDestroy

SpecBus ==
    Init /\ [][NextBus]_vars /\ WF_vars(SigProgress) /\ WF_vars(MainProgress)

\* ------------------------------------------------------ CloudflareTurn
\* Time is counted in half seconds (system_clock is finer than a second).
Seconds(n) == 2 * n
REFRESH_MARGIN_SECONDS == 300
\* The instants at which the clock is read, and the configured TTLs.
Instants ==
    {0, Seconds(200), Seconds(300) - 1, Seconds(300), Seconds(301),
     Seconds(600)}
TtlInputs == {600}

\* duration_cast<seconds>: truncation toward zero.
DurationCastSeconds(d) == IF d >= 0 THEN d \div 2 ELSE -((-d) \div 2)

\* getCredentials, lines 117-127: the cached value is returned.
CacheHit(c, now) ==
    /\ c.valid
    /\ DurationCastSeconds(c.expires_at - now) > REFRESH_MARGIN_SECONDS

\* What the issuer and the network make of one request.
FetchOutcomes ==
    {"ok", "curl_error", "http_error", "bad_json", "no_ice_servers",
     "no_username"}

\* parseResponse, lines 256-269: the loop over "urls"; every matching
\* entry is assigned in turn.
RECURSIVE SelectUrls(_, _)
SelectUrls(urls, c) ==
    IF urls = <<>> THEN c
    ELSE LET url_str == Head(urls)
             c1 == IF /\ StartsWith(url_str, <<"turn", ":">>)
                      /\ ~StartsWith(url_str, <<"turns", ":">>)
                   THEN IF \/ Find(url_str, <<"transport=", "udp">>) # 0
                           \/ Find(url_str, <<"transport=">>) = 0
                        THEN [c EXCEPT !.turn_uri = url_str]
                        ELSE c
                   ELSE IF StartsWith(url_str, <<"turns", ":">>)
                        THEN [c EXCEPT !.turns_uri = url_str]
                        ELSE c
         IN SelectUrls(Tail(urls), c1)

\* parseResponse, lines 252-283, for an answer with username, credential
\* and the given urls.
parseResponse(c, urls, now, ttl) ==
    LET c0 == [c EXCEPT !.username = <<"user", ToString(now)>>,
                        !.password = <<"pass", ToString(now)>>]
        c1 == SelectUrls(urls, c0)
        c2 == [c1 EXCEPT
                 !.turn_uri = IF @ = <<>> THEN DefaultTurnUri ELSE @,
                 !.turns_uri = IF @ = <<>> THEN DefaultTurnsUri ELSE @]
    IN [c2 EXCEPT !.expires_at = now + Seconds(ttl), !.valid = TRUE]

\* fetchCredentials / parseResponse: credentials_ after the request.
fetchCredentials(c, outcome, urls, now, ttl) ==
    IF outcome = "ok" THEN parseResponse(c, urls, now, ttl) ELSE c

\* The mutation of C18: a failed fetch hands out what is cached.
FetchResultStale(c, outcome) == c
\* getCredentials, lines 130-135: the value returned after the fetch.
FetchResult(c, outcome) == IF outcome = "ok" THEN c ELSE NoCredentials

\* getTurnUri, lines 294-320: the URI handed to webrtcbin, empty without
\* credentials; otherwise scheme "://" user ":" pass "@" rest.
getTurnUri(c) ==
    IF ~c.valid THEN <<>>
    ELSE LET uri == c.turn_uri
             colon_pos == Find(uri, <<":">>)
         IN IF colon_pos = 0 THEN uri
            ELSE LET scheme == SubSeq(uri, 1, colon_pos - 1)
                     rest == StripSlashes(Substr(uri, colon_pos + 1))
                 IN scheme \o <<":", "/", "/">> \o c.username \o <<":">>
                    \o c.password \o <<"@">> \o rest

\* initialize, lines 489-522: turn-server is set when a URI was obtained.
ConfigureTurn(p, uri) == [ p EXCEPT !.turn_server = uri ]

\* The process before main's test of the TURN configuration: CloudflareTurn
\* configured from the environment, nothing fetched, TURN not enabled.
InitTurn ==
    /\ peers = <<>>
    /\ viewers_ = {}
    /\ viewer_peers_ = {}
    /\ is_running_ = TRUE
    /\ pipeline_ = TRUE
    /\ mutex_ = "none"
    /\ sig = SigIdle
    /\ main = [pc |-> "run", h |-> 0]
    /\ callers = [t \in Callers |-> [pc |-> "off", sdp |-> ""]]
    /\ left_mid = {}
    /\ crashed = FALSE
    /\ proc = ProcStarted
    /\ \E ttl \in TtlInputs :
         turn = [ TurnOff EXCEPT !.configured_ = TRUE, !.ttl_seconds = ttl ]
    /\ flow = FlowEmpty
    /\ encoder = EncoderReady
    /\ client = ClientReady
    /\ gst = GstIdle

\* A thread calls getCredentials() as main does (main.cpp:253) and blocks
\* on CloudflareTurn::mutex_.
TurnGetCredentials ==
    /\ \E t \in Callers :
        /\ turn.th[t].pc = "idle"
        /\ turn' = [turn EXCEPT !.th[t] = [TurnIdle EXCEPT !.pc = "lock",
                                                           !.kind = "get"]]
    /\ UNCHANGED <<peers, viewers_, viewer_peers_, is_running_, pipeline_,
                   mutex_, sig, main, callers, left_mid, crashed, proc, flow, encoder, client,
                   gst>>

\* A thread adds a viewer: addViewer takes SharedMediaPipeline::mutex_,
\* finds the viewer new, and initialize() reaches getTurnUri() (line 496),
\* which calls getCredentials().
TurnInitialize ==
    /\ \E t \in Callers, v \in Viewers :
        /\ turn.th[t].pc = "idle"
        /\ mutex_ = "none"
        /\ ~ViewerExists(viewers_, v)
        /\ turn.turn_configured_ /\ turn.use_cloudflare_turn_
        /\ Len(peers) < MaxPeers
        /\ mutex_' = t
        /\ turn' = [turn EXCEPT !.th[t] = [TurnIdle EXCEPT !.pc = "lock",
                                                           !.kind = "init",
                                                           !.vid = v]]
    /\ UNCHANGED <<peers, viewers_, viewer_peers_, is_running_, pipeline_,
                   sig, main, callers, left_mid, crashed, proc, flow, encoder, client,
                   gst>>

\* getCredentials, lines 114-127: the lock is taken; a cache hit returns
\* at once, otherwise fetchCredentials issues the HTTP request, the lock
\* still held.
TurnEnter ==
    /\ \E t \in Callers :
        /\ turn.th[t].pc = "lock" /\ turn.mutex_ = "none"
        /\ IF CacheHit(turn.credentials_, turn.now)
           THEN turn' = [turn EXCEPT !.th[t].pc = "done",
                                     !.th[t].outcome = "cached",
                                     !.th[t].result = turn.credentials_]
           ELSE turn' = [turn EXCEPT
                    !.mutex_ = t,
                    !.th = [u \in Callers |->
                              IF u = t THEN [@[u] EXCEPT !.pc = "fetch"]
                              ELSE IF @[u].pc = "lock"
                                   THEN [@[u] EXCEPT !.waited = TRUE]
                                   ELSE @[u]]]
    /\ UNCHANGED <<peers, viewers_, viewer_peers_, is_running_, pipeline_,
                   mutex_, sig, main, callers, left_mid, crashed, proc, flow, encoder, client,
                   gst>>

\* fetchCredentials returns (lines 191-214) and getCredentials with it.
TurnFetchReturn ==
    /\ \E t \in Callers, outcome \in FetchOutcomes :
        /\ turn.th[t].pc = "fetch"
        /\ LET c == fetchCredentials(turn.credentials_, outcome,
                                     turn.response, turn.now,
                                     turn.ttl_seconds)
           IN turn' = [turn EXCEPT !.credentials_ = c,
                                   !.request_ttl = <<turn.ttl_seconds>>,
                                   !.mutex_ = "none",
                                   !.th[t].pc = "done",
                                   !.th[t].outcome = outcome,
                                   !.th[t].result = FetchResult(c, outcome)]
    /\ UNCHANGED <<peers, viewers_, viewer_peers_, is_running_, pipeline_,
                   mutex_, sig, main, callers, left_mid, crashed, proc, flow, encoder, client,
                   gst>>

\* The caller goes on with the value: main enables Cloudflare TURN when it
\* is valid (main.cpp:254-256); initialize() sets turn-server when the URI
\* is not empty and builds the rest of the peer.
TurnReturn ==
    /\ \E t \in Callers :
        /\ turn.th[t].pc = "done"
        /\ IF turn.th[t].kind = "get"
           THEN /\ turn' = [turn EXCEPT
                      !.th[t] = TurnIdle,
                      !.turn_configured_ = @ \/ turn.th[t].result.valid,
                      !.use_cloudflare_turn_ = @ \/ turn.th[t].result.valid]
                /\ UNCHANGED <<peers, viewers_, mutex_>>
           ELSE /\ turn' = [turn EXCEPT !.th[t] = TurnIdle]
                /\ mutex_' = "none"
                /\ \E failAt \in FailPoints \ {"webrtcbin_"} :
                     LET v == turn.th[t].vid
                         p == initialize(
                                ConfigureTurn(NewPeer(v, pipeline_),
                                              getTurnUri(turn.th[t].result)),
                                failAt)
                     IN IF initializeOk(failAt)
                        THEN /\ peers' = Append(peers, p)
                             /\ viewers_' = MapPut(viewers_, v, Len(peers) + 1)
                        ELSE /\ peers' = Append(peers, DeletePeer(p))
                             /\ viewers_' = viewers_
    /\ UNCHANGED <<viewer_peers_, is_running_, pipeline_, sig, main,
                   callers, left_mid, crashed, proc, flow, encoder, client,
                   gst>>

\* Time passes between calls.
TurnTick ==
    /\ \A t \in Callers : turn.th[t].pc = "idle"
    /\ \E n \in Instants :
        /\ n > turn.now
        /\ turn' = [turn EXCEPT !.now = n]
    /\ UNCHANGED <<peers, viewers_, viewer_peers_, is_running_, pipeline_,
                   mutex_, sig, main, callers, left_mid, crashed, proc, flow, encoder, client,
                   gst>>

NextTurn ==
    \/ TurnGetCredentials
    \/ TurnInitialize
    \/ TurnEnter
    \/ TurnFetchReturn
    \/ TurnReturn
    \/ TurnTick

SpecTurn == InitTurn /\ [][NextTurn]_vars

\* ------------------------------------------------------------ startup
StartupOrder == <<"initialize", "start", "connect", "register">>

\* The process when main constructs the StreamManager (main.cpp:293):
\* no pipeline, no signaling I/O thread, nothing sent.
InitMain ==
    /\ peers = <<>>
    /\ viewers_ = {}
    /\ viewer_peers_ = {}
    /\ is_running_ = FALSE
    /\ pipeline_ = FALSE
    /\ mutex_ = "none"
    /\ sig = [SigIdle EXCEPT !.pc = "off"]
    /\ main = [pc |-> "boot_initialize", h |-> 0]
    /\ callers = [t \in Callers |-> [pc |-> "off", sdp |-> ""]]
    /\ left_mid = {}
    /\ crashed = FALSE
    /\ proc = [ProcStarted EXCEPT !.log = <<>>]
    /\ turn = TurnOff
    /\ flow = FlowEmpty
    /\ encoder = EncoderReady
    /\ client = ClientReady
    /\ gst = GstIdle

\* start(), lines 52-56: SharedMediaPipeline::initialize builds the graph.
MainInitialize ==
    /\ main.pc = "boot_initialize"
    /\ \E ok \in BOOLEAN :
        IF ok
        THEN /\ pipeline_' = TRUE
             /\ proc' = [proc EXCEPT !.log = Append(@, "initialize")]
             /\ main' = [main EXCEPT !.pc = "boot_start"]
        ELSE /\ main' = [main EXCEPT !.pc = "boot_failed"]
             /\ UNCHANGED <<pipeline_, proc>>
    /\ UNCHANGED <<peers, viewers_, viewer_peers_, is_running_, mutex_, sig,
                   callers, left_mid, crashed, turn, flow, encoder, client,
                   gst>>

\* start(), lines 59-63: SharedMediaPipeline::start sets the graph PLAYING.
MainStart ==
    /\ main.pc = "boot_start"
    /\ \E ok \in BOOLEAN :
        IF ok
        THEN /\ is_running_' = TRUE
             /\ proc' = [proc EXCEPT !.log = Append(@, "start")]
             /\ main' = [main EXCEPT !.pc = "boot_connect"]
        ELSE /\ main' = [main EXCEPT !.pc = "boot_failed"]
             /\ UNCHANGED <<is_running_, proc>>
    /\ UNCHANGED <<peers, viewers_, viewer_peers_, pipeline_, mutex_, sig,
                   callers, left_mid, crashed, turn, flow, encoder, client,
                   gst>>

\* The mutation of C19: the result of connect() is not examined.
MainConnectUnchecked ==
    /\ main.pc = "boot_connect"
    /\ \E ok \in BOOLEAN :
        /\ sig' = [sig EXCEPT !.pc = IF ok THEN "idle" ELSE "stopped"]
        /\ proc' = IF ok THEN [proc EXCEPT !.log = Append(@, "connect")]
                   ELSE proc
        /\ main' = [main EXCEPT !.pc = "boot_register"]
    /\ UNCHANGED <<peers, viewers_, viewer_peers_, is_running_, pipeline_,
                   mutex_, callers, left_mid, crashed, turn, flow, encoder, client,
                   gst>>

\* start(), lines 66-70: SignalingClient::connect starts the I/O thread and
\* waits up to five seconds for the connection to open.
MainConnect ==
    /\ main.pc = "boot_connect"
    /\ \E ok \in BOOLEAN :
        IF ok
        THEN /\ sig' = SigIdle
             /\ proc' = [proc EXCEPT !.log = Append(@, "connect")]
             /\ main' = [main EXCEPT !.pc = "boot_register"]
        ELSE /\ main' = [main EXCEPT !.pc = "boot_failed"]
             /\ UNCHANGED <<sig, proc>>
    /\ UNCHANGED <<peers, viewers_, viewer_peers_, is_running_, pipeline_,
                   mutex_, callers, left_mid, crashed, turn, flow, encoder, client,
                   gst>>

\* start(), lines 75-88: the register message is sent, start returns true
\* and main enters run().
MainRegister ==
    /\ main.pc = "boot_register"
    /\ proc' = [proc EXCEPT !.log = Append(@, "register")]
    /\ main' = [main EXCEPT !.pc = "run"]
    /\ UNCHANGED <<peers, viewers_, viewer_peers_, is_running_, pipeline_,
                   mutex_, sig, callers, left_mid, crashed, turn, flow, encoder, client,
                   gst>>

\* main, lines 295-297: start() returned false and main returns 1; the
\* manager's members are destroyed, ~SignalingClient joining the I/O thread
\* and ~SharedMediaPipeline stopping a pipeline that runs.
MainStartFailed ==
    /\ main.pc = "boot_failed"
    /\ sig' = [sig EXCEPT !.pc = IF @ = "off" THEN "off" ELSE "stopped"]
    /\ pipeline_' = IF is_running_ THEN FALSE ELSE pipeline_
    /\ is_running_' = FALSE
    /\ proc' = [proc EXCEPT !.exit_code = 1]
    /\ main' = [main EXCEPT !.pc = "exited"]
    /\ UNCHANGED <<peers, viewers_, viewer_peers_, mutex_, callers, left_mid,
                   crashed, turn, flow, encoder, client, gst>>

NextMain ==
    \/ MainInitialize
    \/ MainStart
    \/ MainConnect
    \/ MainRegister
    \/ MainStartFailed
    \/ SigViewerJoined
    \/ SigViewerJoinedOffer
    \/ GstOfferCreated
    \/ SigAnswer
    \/ SigAnswerStore
    \/ SigAnswerFlush
    \/ SigAnswerKeyframe
    \/ SigIceCandidate
    \/ SigViewerLeft
    \/ SigReturn
    \/ MainStop
    \/ MainStopCleanup
    \/ MainStopTeardown
    \/ MainStopDelete
    \/ MainStopFinish
    \/ MainClearPeers
    \/ MainDisconnect
    \/ MainDestroy

SpecMain == InitMain /\ [][NextMain]_vars

\* -------------------------------------------------------- media queues
\* Buffers pushed beyond a queue's capacity, and buffers the consumers
\* take in all.
MaxOverflow == 2
MaxDrain == 2

\* Milliseconds of media in one buffer: 30 fps video with 20 ms audio
\* frames, or 10 fps video with 40 ms audio frames.
DurationInputs ==
    { [video |-> 33, audio |-> 20], [video |-> 100, audio |-> 40] }

\* The mutation of C20: leaky = 1, the mode the comments name, in which a
\* full queue refuses the arriving buffer.
QueueConfigUpstream(k) ==
    [ max_size_buffers |-> IF k = "video" THEN 30 ELSE 50,
      max_size_time |-> 1000, max_size_bytes |-> 0, leaky |-> 1 ]
\* initialize(), lines 540-551: the properties set on the two queues
\* (max-size-time in milliseconds).
QueueConfig(k) ==
    [ max_size_buffers |-> IF k = "video" THEN 30 ELSE 50,
      max_size_time |-> 1000, max_size_bytes |-> 0, leaky |-> 2 ]

\* The queue element's test for a level that reached a limit; a limit of
\* zero is no limit.
QueueIsFilled(q, cfg, d) ==
    \/ cfg.max_size_buffers > 0 /\ Len(q) >= cfg.max_size_buffers
    \/ cfg.max_size_time > 0 /\ Len(q) * d >= cfg.max_size_time

\* leaky = 2: the head of the queue is dropped until the queue is not
\* filled.
RECURSIVE LeakDownstream(_, _, _)
LeakDownstream(q, cfg, d) ==
    IF q # <<>> /\ QueueIsFilled(q, cfg, d)
    THEN LeakDownstream(Tail(q), cfg, d)
    ELSE q

\* The queue's chain function for buffer b: what is queued afterwards,
\* how many buffers were dropped, and whether the pushing thread waits.
QueueChain(q, b, cfg, d) ==
    IF ~QueueIsFilled(q, cfg, d)
    THEN [ q |-> Append(q, b), dropped |-> 0, blocked |-> FALSE ]
    ELSE IF cfg.leaky = 2
    THEN LET r == LeakDownstream(q, cfg, d)
         IN [ q |-> Append(r, b), dropped |-> Len(q) - Len(r),
              blocked |-> FALSE ]
    ELSE IF cfg.leaky = 1
    THEN [ q |-> q, dropped |-> 1, blocked |-> FALSE ]
    ELSE [ q |-> q, dropped |-> 0, blocked |-> TRUE ]

\* Two viewers joined (addViewer and createOffer returned for each): their
\* queues are linked to the tees and PLAYING.
FlowPeer(v) ==
    [ initialize(NewPeer(v, TRUE), "none") EXCEPT !.offer_pending = TRUE ]

InitFlow ==
    /\ peers = << FlowPeer(ViewerOrder[1]), FlowPeer(ViewerOrder[2]) >>
    /\ viewers_ = { <<ViewerOrder[1], 1>>, <<ViewerOrder[2], 2>> }
    /\ viewer_peers_ = { <<ViewerOrder[1], 1>>, <<ViewerOrder[2], 2>> }
    /\ is_running_ = TRUE
    /\ pipeline_ = TRUE
    /\ mutex_ = "none"
    /\ sig = SigIdle
    /\ main = [pc |-> "run", h |-> 0]
    /\ callers = [t \in Callers |-> [pc |-> "off", sdp |-> ""]]
    /\ left_mid = {}
    /\ crashed = FALSE
    /\ proc = ProcStarted
    /\ turn = TurnOff
    /\ \E d \in DurationInputs : flow = [FlowEmpty EXCEPT !.dur = d]
    /\ encoder = EncoderReady
    /\ client = ClientReady
    /\ gst = GstIdle

\* The streaming thread of a tee pushes its next buffer to the branches,
\* one after the other; a branch that makes it wait keeps the buffer from
\* the branches after it.
TeePush ==
    /\ \E k \in Kinds :
        /\ ~flow.tee_blocked[k]
        /\ flow.pushed[k] < QueueConfig(k).max_size_buffers + MaxOverflow
        /\ LET b == flow.pushed[k] + 1
               r == [h \in FlowPeers |->
                       QueueChain(flow.q[h][k], b, QueueConfig(k),
                                  flow.dur[k])]
               reached(h) == \A g \in FlowPeers : g <= h => ~r[g].blocked
           IN flow' = [flow EXCEPT
                  !.pushed[k] = b,
                  !.tee_blocked[k] = \E h \in FlowPeers : r[h].blocked,
                  !.q = [h \in FlowPeers |->
                           [@[h] EXCEPT ![k] =
                              IF reached(h) THEN r[h].q ELSE @]],
                  !.lost = [h \in FlowPeers |->
                           [@[h] EXCEPT ![k] =
                              IF reached(h) THEN @ + r[h].dropped ELSE @]]]
    /\ UNCHANGED <<peers, viewers_, viewer_peers_, is_running_, pipeline_,
                   mutex_, sig, main, callers, left_mid, crashed, proc, turn,
                   encoder, client, gst>>

\* Buffers the consumers have taken so far.
Taken ==
    flow.out[1]["video"] + flow.out[1]["audio"]
      + flow.out[2]["video"] + flow.out[2]["audio"]

\* The task of a queue's source pad takes the oldest buffer and hands it
\* to the viewer's webrtcbin.
QueueLoop ==
    /\ \E h \in FlowPeers, k \in Kinds :
        /\ flow.q[h][k] # <<>>
        /\ Taken < MaxDrain
        /\ flow' = [flow EXCEPT !.q[h][k] = Tail(@),
                                !.out[h][k] = @ + 1]
    /\ UNCHANGED <<peers, viewers_, viewer_peers_, is_running_, pipeline_,
                   mutex_, sig, main, callers, left_mid, crashed, proc, turn,
                   encoder, client, gst>>

NextFlow ==
    \/ TeePush
    \/ QueueLoop

SpecFlow == InitFlow /\ [][NextFlow]_vars

\* ------------------------------------------------------ the registry lock
\* removeViewer, lines 367-370: the signaling thread takes mutex_ and looks
\* the viewer up.
LockViewerLeft ==
    /\ ~crashed /\ sig.pc = "idle" /\ mutex_ = "none"
    /\ \E v \in Viewers :
        /\ mutex_' = "sig"
        /\ sig' = [SigStart("viewer-left", v) EXCEPT
                      !.pc = IF MapHas(viewers_, v) THEN "left_cleanup"
                             ELSE "left_erase",
                      !.h = IF MapHas(viewers_, v) THEN MapGet(viewers_, v)
                            ELSE 0]
    /\ UNCHANGED <<peers, viewers_, viewer_peers_, is_running_, pipeline_,
                   main, callers, left_mid, crashed, proc, turn, flow, encoder, client,
                   gst>>

\* removeViewer, line 374: delete runs ~WebRTCPeer and cleanup(), which
\* unlinks, releases the ports, sets the elements to NULL and is now in its
\* waits (lines 899-935): 500 ms for the NULL state, 500 ms of main-loop
\* iterations.
LockViewerLeftWaits ==
    /\ ~crashed /\ sig.pc = "left_cleanup"
    /\ peers' = [peers EXCEPT ![sig.h] = cleanup(peers[sig.h])]
    /\ sig' = [sig EXCEPT !.pc = "left_wait"]
    /\ UNCHANGED <<viewers_, viewer_peers_, is_running_, pipeline_, mutex_,
                   main, callers, left_mid, crashed, proc, turn, flow, encoder, client,
                   gst>>

\* removeViewer, lines 374-380, and onViewerLeft, line 192: the waits are
\* over, the peer is freed, its record erased, mutex_ released, and the
\* viewer erased from viewer_peers_.
LockViewerLeftDone ==
    /\ ~crashed /\ sig.pc \in {"left_wait", "left_erase"}
    /\ peers' = RemoveViewerPeers(peers, viewers_, sig.vid)
    /\ viewers_' = RemoveViewerMap(viewers_, sig.vid)
    /\ viewer_peers_' = EraseViewerPeer(viewer_peers_, sig.vid)
    /\ left_mid' = IF MidHandshake(sig.vid) THEN left_mid \cup {sig.vid}
                   ELSE left_mid
    /\ mutex_' = "none"
    /\ sig' = SigDone("viewer-left", sig.vid)
    /\ UNCHANGED <<is_running_, pipeline_, main, callers, crashed, proc,
                   turn, flow, encoder, client, gst>>

\* addViewer, lines 330-350: the signaling thread takes mutex_, finds the
\* viewer (and returns the peer it has) or constructs a WebRTCPeer.
LockViewerJoined ==
    /\ ~crashed /\ sig.pc = "idle" /\ mutex_ = "none"
    /\ \E v \in Viewers :
        /\ left_mid' = left_mid \ {v}
        /\ IF ViewerExists(viewers_, v)
           THEN /\ sig' = [SigStart("viewer-joined", v) EXCEPT
                              !.pc = "join_offer", !.h = MapGet(viewers_, v)]
                /\ mutex_' = mutex_
           ELSE /\ Len(peers) < MaxPeers
                /\ sig' = [SigStart("viewer-joined", v) EXCEPT
                              !.pc = "join_build"]
                /\ mutex_' = "sig"
    /\ UNCHANGED <<peers, viewers_, viewer_peers_, is_running_, pipeline_,
                   main, callers, crashed, proc, turn, flow, encoder, client,
                   gst>>

\* addViewer, lines 352-361: initialize() builds the attachment (element
\* creation, state syncs, one-second state queries, linking), the peer is
\* registered or deleted, and mutex_ released on return.
LockViewerJoinedBuild ==
    /\ ~crashed /\ sig.pc = "join_build"
    /\ \E failAt \in FailPoints :
         LET p == initialize(NewPeer(sig.vid, pipeline_), failAt)
             h == Len(peers) + 1
         IN IF initializeOk(failAt)
            THEN /\ peers' = Append(peers, p)
                 /\ viewers_' = MapPut(viewers_, sig.vid, h)
                 /\ sig' = [sig EXCEPT !.pc = "join_offer", !.h = h]
            ELSE /\ peers' = Append(peers, DeletePeer(p))
                 /\ viewers_' = viewers_
                 /\ sig' = SigDone("viewer-joined", sig.vid)
    /\ mutex_' = "none"
    /\ UNCHANGED <<viewer_peers_, is_running_, pipeline_, main, callers,
                   left_mid, crashed, proc, turn, flow, encoder, client,
                   gst>>

NextLock ==
    \/ LockViewerJoined
    \/ LockViewerJoinedBuild
    \/ SigViewerJoinedOffer
    \/ GstOfferCreated
    \/ SigAnswer
    \/ SigAnswerStore
    \/ SigAnswerFlush
    \/ SigAnswerKeyframe
    \/ SigIceCandidate
    \/ LockViewerLeft
    \/ LockViewerLeftWaits
    \/ LockViewerLeftDone
    \/ SigReturn
    \/ MainStop
    \/ MainStopCleanup
    \/ MainStopTeardown
    \/ MainStopDelete
    \/ MainStopFinish
    \/ MainClearPeers
    \/ MainDisconnect
    \/ MainDestroy

SpecLock == Init /\ [][NextLock]_vars

\* ------------------------------------------- cleanup from several threads
\* cleanup(), lines 754-776, once cleanup_mutex_ is taken by thread t: a
\* peer already cleaned up, or without pipeline, is left at once and the
\* lock released; otherwise the teardown follows with the lock held.
CleanupEnter(p, t) ==
    IF CleanupContinues(p)
    THEN [ CleanupBegin(p) EXCEPT !.cleanup_mutex_ = t ]
    ELSE CleanupBegin(p)

\* A thread calls WebRTCPeer::cleanup: std::lock_guard takes cleanup_mutex_
\* or parks the thread until its holder releases it.
CallCleanup ==
    /\ \E t \in Callers :
        /\ callers[t].pc = "idle"
        /\ IF peers[1].cleanup_mutex_ = "none"
           THEN /\ peers' = [peers EXCEPT ![1] = CleanupEnter(peers[1], t)]
                /\ callers' = [callers EXCEPT ![t].pc =
                                 IF CleanupContinues(peers[1])
                                 THEN "cleanup_teardown" ELSE "idle"]
           ELSE /\ callers' = [callers EXCEPT ![t].pc = "cleanup_blocked"]
                /\ peers' = peers
    /\ UNCHANGED <<viewers_, viewer_peers_, is_running_, pipeline_, mutex_,
                   sig, main, left_mid, crashed, proc, turn, flow, encoder, client,
                   gst>>

\* The parked thread is given the lock and goes through lines 756-776.
CallCleanupResume ==
    /\ \E t \in Callers :
        /\ callers[t].pc = "cleanup_blocked"
        /\ peers[1].cleanup_mutex_ = "none"
        /\ peers' = [peers EXCEPT ![1] = CleanupEnter(peers[1], t)]
        /\ callers' = [callers EXCEPT ![t].pc =
                         IF CleanupContinues(peers[1])
                         THEN "cleanup_teardown" ELSE "idle"]
    /\ UNCHANGED <<viewers_, viewer_peers_, is_running_, pipeline_, mutex_,
                   sig, main, left_mid, crashed, proc, turn, flow, encoder, client,
                   gst>>

\* cleanup(), lines 778-957: the teardown with its two 500 ms waits ends
\* and the lock is released on return.
CallCleanupTeardown ==
    /\ \E t \in Callers :
        /\ callers[t].pc = "cleanup_teardown"
        /\ peers' = [peers EXCEPT ![1] =
                        [CleanupTeardown(peers[1]) EXCEPT
                            !.cleanup_mutex_ = "none"]]
        /\ callers' = [callers EXCEPT ![t].pc = "idle"]
    /\ UNCHANGED <<viewers_, viewer_peers_, is_running_, pipeline_, mutex_,
                   sig, main, left_mid, crashed, proc, turn, flow, encoder, client,
                   gst>>

NextCleanup ==
    \/ CallAddIceCandidate
    \/ CallSetRemoteAnswer
    \/ CallSetRemoteStore
    \/ CallSetRemoteFlush
    \/ CallCleanup
    \/ CallCleanupResume
    \/ CallCleanupTeardown

SpecCleanup == InitPeer /\ [][NextCleanup]_vars

\* --------------------------------------------------------- forceKeyframe
\* Calls of forceKeyframe that are followed.
MaxKeyframeCalls == 3

KfIdle == [pc |-> "idle", accepted |-> FALSE, current_key_int |-> 0]

\* The mutation of C25: the timer restores the value read at line 266.
RestoreValueSaved(current_key_int) == current_key_int
\* forceKeyframe, line 272: the value the timer writes back.
RestoreValue(current_key_int) == 30

\* The running pipeline; gst_bin_get_by_name at line 211 found the encoder
\* or left video_encoder_ null.
InitKeyframe ==
    /\ peers = <<>>
    /\ viewers_ = {}
    /\ viewer_peers_ = {}
    /\ is_running_ = TRUE
    /\ pipeline_ = TRUE
    /\ mutex_ = "none"
    /\ sig = SigIdle
    /\ main = [pc |-> "run", h |-> 0]
    /\ callers = [t \in Callers |-> [pc |-> "off", sdp |-> ""]]
    /\ left_mid = {}
    /\ crashed = FALSE
    /\ proc = ProcStarted
    /\ turn = TurnOff
    /\ flow = FlowEmpty
    /\ \E b \in BOOLEAN : encoder = [EncoderReady EXCEPT !.present = b]
    /\ client = ClientReady
    /\ gst = GstIdle

\* forceKeyframe, lines 242-259: without encoder the call returns; else the
\* force-key-unit event is sent, and the encoder takes it or refuses it.
KfCall ==
    /\ \E t \in Callers :
        /\ encoder.th[t].pc = "idle"
        /\ encoder.calls < MaxKeyframeCalls
        /\ IF ~encoder.present
           THEN encoder' = [encoder EXCEPT !.calls = @ + 1]
           ELSE \E ok \in BOOLEAN :
                  encoder' = [encoder EXCEPT
                      !.calls = @ + 1,
                      !.events = @ + 1,
                      !.overlapped =
                          @ \/ ( ~ok /\ ( \/ encoder.timers # <<>>
                                          \/ \E u \in Callers :
                                               encoder.th[u].pc # "idle" ) ),
                      !.th[t] = [KfIdle EXCEPT
                                   !.accepted = ok,
                                   !.pc = IF ok THEN "idle" ELSE "kf_get"]]
    /\ UNCHANGED <<peers, viewers_, viewer_peers_, is_running_, pipeline_,
                   mutex_, sig, main, callers, left_mid, crashed, proc, turn,
                   flow,
                   client, gst>>

\* forceKeyframe, line 266: g_object_get key-int-max.
KfGet ==
    /\ \E t \in Callers :
        /\ encoder.th[t].pc = "kf_get"
        /\ encoder' = [encoder EXCEPT
               !.th[t].current_key_int = encoder.key_int_max,
               !.th[t].pc = "kf_set"]
    /\ UNCHANGED <<peers, viewers_, viewer_peers_, is_running_, pipeline_,
                   mutex_, sig, main, callers, left_mid, crashed, proc, turn,
                   flow,
                   client, gst>>

\* forceKeyframe, line 267: g_object_set key-int-max = 1.
KfSet ==
    /\ \E t \in Callers :
        /\ encoder.th[t].pc = "kf_set"
        /\ encoder' = [encoder EXCEPT !.key_int_max = 1,
                                      !.th[t].pc = "kf_timer"]
    /\ UNCHANGED <<peers, viewers_, viewer_peers_, is_running_, pipeline_,
                   mutex_, sig, main, callers, left_mid, crashed, proc, turn,
                   flow,
                   client, gst>>

\* forceKeyframe, lines 270-277: g_timeout_add(100, ...) and return.
KfTimer ==
    /\ \E t \in Callers :
        /\ encoder.th[t].pc = "kf_timer"
        /\ encoder' = [encoder EXCEPT
               !.timers = Append(@, RestoreValue(
                                        encoder.th[t].current_key_int)),
               !.th[t] = KfIdle]
    /\ UNCHANGED <<peers, viewers_, viewer_peers_, is_running_, pipeline_,
                   mutex_, sig, main, callers, left_mid, crashed, proc, turn,
                   flow,
                   client, gst>>

\* The main loop runs the oldest timeout: lines 271-274.
KfRestore ==
    /\ encoder.timers # <<>>
    /\ encoder' = [encoder EXCEPT !.key_int_max = Head(encoder.timers),
                                  !.timers = Tail(@),
                                  !.restored = @ + 1]
    /\ UNCHANGED <<peers, viewers_, viewer_peers_, is_running_, pipeline_,
                   mutex_, sig, main, callers, left_mid, crashed, proc, turn,
                   flow,
                   client, gst>>

NextKeyframe ==
    \/ KfCall
    \/ KfGet
    \/ KfSet
    \/ KfTimer
    \/ KfRestore

SpecKeyframe == InitKeyframe /\ [][NextKeyframe]_vars

\* ------------------------------------------------------- TURN set-up
\* Config::ttl_seconds as declared.
TTL_DEFAULT == 86400

\* The longest list of urls followed.
MaxUrls == 3

\* What CLOUDFLARE_TURN_TTL can hold, in the .env file or the environment:
\* nothing, text that is no number, or a number.
TtlTexts ==
    { [kind |-> "unset", n |-> 0], [kind |-> "text", n |-> 0],
      [kind |-> "number", n |-> 3600], [kind |-> "number", n |-> 172800],
      [kind |-> "number", n |-> 200000] }

\* try { ttl = std::stoi(text); } catch (...) {}
Stoi(text, keep) == IF text.kind = "number" THEN text.n ELSE keep

\* loadConfigFromEnv, lines 33-95: the TTL of the Config it builds; the
\* .env file is read first, the environment overrides it.
LoadTtl(env) == Stoi(env.env_ttl, Stoi(env.file_ttl, TTL_DEFAULT))

\* The urls an answer of the issuer may list.
UrlUniverse ==
    { Url("stun", "3478", "none"), Url("turn", "3478", "udp"),
      Url("turn", "53", "udp"), Url("turn", "3478", "tcp"),
      Url("turn", "3478", "none"), Url("turns", "5349", "tcp"),
      Url("turns", "443", "tcp") }
UrlLists == UNION { [1..n -> UrlUniverse] : n \in 0..MaxUrls }

\* The values TURN_SERVER may hold.
StaticUris ==
    { <<"turn", ":", "host", ":", "3478">>,
      <<"turn", ":", "/", "/", "host", ":", "3478">>,
      <<"turns", ":", "/", "/", "host", ":", "5349">>,
      <<"turn", ":", "host", ":", "3478", "?", "transport=", "udp">> }

\* initialize, lines 505-516: the static URI with the credentials put in.
StaticTurnUri(config) ==
    IF config.username = <<>> THEN config.uri
    ELSE LET pos == Find(config.uri, <<":", "/", "/">>)
         IN IF pos = 0 THEN config.uri
            ELSE SubSeq(config.uri, 1, pos + 2) \o config.username \o
                 <<":">> \o config.password \o <<"@">> \o
                 Substr(config.uri, pos + 3)

\* The process as main reaches its TURN set-up (main.cpp:245): the
\* environment, the .env file and the issuer's answers are what they are.
InitIce ==
    /\ peers = <<>>
    /\ viewers_ = {}
    /\ viewer_peers_ = {}
    /\ is_running_ = TRUE
    /\ pipeline_ = TRUE
    /\ mutex_ = "none"
    /\ sig = SigIdle
    /\ main = [pc |-> "run", h |-> 0]
    /\ callers = [t \in Callers |-> [pc |-> "off", sdp |-> ""]]
    /\ left_mid = {}
    /\ crashed = FALSE
    /\ proc = ProcStarted
    /\ \E keys \in BOOLEAN, file_ttl \in TtlTexts, env_ttl \in TtlTexts,
          server \in StaticUris \cup {<<>>},
          user \in {<<>>, <<"alice">>}, urls \in UrlLists :
         \* one kind of input is varied at a time
         /\ \/ urls = IssuerUrls /\ server = <<>> /\ user = <<>>
            \/ urls = IssuerUrls /\ file_ttl.kind = "unset"
                                 /\ env_ttl.kind = "unset"
            \/ /\ keys /\ server = <<>> /\ user = <<>>
               /\ file_ttl.kind = "unset" /\ env_ttl.kind = "unset"
         /\ turn = [ TurnOff EXCEPT
                       !.stage = "env",
                       !.response = urls,
                       !.env = [ keys |-> keys, file_ttl |-> file_ttl,
                                 env_ttl |-> env_ttl,
                                 TURN_SERVER |-> server,
                                 TURN_USERNAME |-> user,
                                 TURN_PASSWORD |->
                                   IF user = <<>> THEN <<>>
                                   ELSE <<"secret">> ] ]
    /\ flow = FlowEmpty
    /\ encoder = EncoderReady
    /\ client = ClientReady
    /\ gst = GstIdle

\* main.cpp:251, loadConfigFromEnv: without key id and token it returns
\* false (lines 98-103), otherwise setConfig stores the Config.
IceLoadConfig ==
    /\ turn.stage = "env"
    /\ IF turn.env.keys
       THEN turn' = [turn EXCEPT !.stage = "loaded",
                                 !.configured_ = TRUE,
                                 !.ttl_seconds = LoadTtl(turn.env)]
       ELSE turn' = [turn EXCEPT !.stage = "static"]
    /\ UNCHANGED <<peers, viewers_, viewer_peers_, is_running_, pipeline_,
                   mutex_, sig, main, callers, left_mid, crashed, proc, flow,
                   encoder, client, gst>>

\* main.cpp:253-259: the test fetch; Cloudflare TURN is enabled when it
\* gave valid credentials.
IceTestFetch ==
    /\ turn.stage = "loaded"
    /\ \E outcome \in FetchOutcomes :
         LET c == fetchCredentials(turn.credentials_, outcome, turn.response,
                                   turn.now, turn.ttl_seconds)
             creds == FetchResult(c, outcome)
         IN turn' = [turn EXCEPT
                       !.stage = "static",
                       !.credentials_ = c,
                       !.request_ttl = <<turn.ttl_seconds>>,
                       !.turn_configured_ = @ \/ creds.valid,
                       !.use_cloudflare_turn_ = @ \/ creds.valid]
    /\ UNCHANGED <<peers, viewers_, viewer_peers_, is_running_, pipeline_,
                   mutex_, sig, main, callers, left_mid, crashed, proc, flow,
                   encoder, client, gst>>

\* main.cpp:263-275 and setTurnServer: the static TURN server of the
\* environment, when Cloudflare TURN is not in use.
IceStaticFallback ==
    /\ turn.stage = "static"
    /\ IF ~turn.use_cloudflare_turn_ /\ turn.env.TURN_SERVER # <<>>
       THEN turn' = [turn EXCEPT
                       !.stage = "run",
                       !.turn_config_ =
                           [ uri |-> turn.env.TURN_SERVER,
                             username |-> turn.env.TURN_USERNAME,
                             password |-> turn.env.TURN_PASSWORD ],
                       !.turn_configured_ = TRUE,
                       !.use_cloudflare_turn_ = FALSE]
       ELSE turn' = [turn EXCEPT !.stage = "run"]
    /\ UNCHANGED <<peers, viewers_, viewer_peers_, is_running_, pipeline_,
                   mutex_, sig, main, callers, left_mid, crashed, proc, flow,
                   encoder, client, gst>>

\* addViewer for a new viewer, with the TURN part of initialize (lines
\* 489-525) followed: the dynamic URI comes from getTurnUri, which fetches
\* when the cache does not serve, the static one from turn_config_.
IceAddViewer ==
    /\ turn.stage = "run"
    /\ mutex_ = "none"
    /\ Len(peers) < MaxPeers
    /\ \E v \in Viewers, outcome \in FetchOutcomes,
          failAt \in FailPoints \ {"webrtcbin_"} :
        /\ ~ViewerExists(viewers_, v)
        /\ LET dynamic == turn.turn_configured_ /\ turn.use_cloudflare_turn_
               hit == CacheHit(turn.credentials_, turn.now)
               c == IF dynamic /\ ~hit
                    THEN fetchCredentials(turn.credentials_, outcome,
                                          turn.response, turn.now,
                                          turn.ttl_seconds)
                    ELSE turn.credentials_
               creds == IF hit THEN c ELSE FetchResult(c, outcome)
               uri == IF ~turn.turn_configured_ THEN <<>>
                      ELSE IF turn.use_cloudflare_turn_ THEN getTurnUri(creds)
                      ELSE StaticTurnUri(turn.turn_config_)
               p == initialize(ConfigureTurn(NewPeer(v, pipeline_), uri),
                               failAt)
           IN /\ turn' = [turn EXCEPT
                            !.credentials_ = c,
                            !.request_ttl = IF dynamic /\ ~hit
                                            THEN <<turn.ttl_seconds>> ELSE @]
              /\ IF initializeOk(failAt)
                 THEN /\ peers' = Append(peers, p)
                      /\ viewers_' = MapPut(viewers_, v, Len(peers) + 1)
                 ELSE /\ peers' = Append(peers, DeletePeer(p))
                      /\ viewers_' = viewers_
    /\ UNCHANGED <<viewer_peers_, is_running_, pipeline_, mutex_, sig, main,
                   callers, left_mid, crashed, proc, flow, encoder, client,
                   gst>>

\* Time passes until the credentials expire.
IceTick ==
    /\ turn.stage = "run"
    /\ turn.credentials_.valid
    /\ turn.now < turn.credentials_.expires_at
    /\ turn' = [turn EXCEPT !.now = turn.credentials_.expires_at]
    /\ UNCHANGED <<peers, viewers_, viewer_peers_, is_running_, pipeline_,
                   mutex_, sig, main, callers, left_mid, crashed, proc, flow,
                   encoder, client, gst>>

NextIce ==
    \/ IceLoadConfig
    \/ IceTestFetch
    \/ IceStaticFallback
    \/ IceAddViewer
    \/ IceTick

SpecIce == InitIce /\ [][NextIce]_vars

\* -------------------------------------------------- SignalingClient
\* The number of frames followed.
MaxFrames == 2

\* Json::Value: a string, an integer, null (also what a missing member
\* reads as) or an array.
JStr(s) == [kind |-> "string", text |-> s, n |-> 0]
JInt(k) == [kind |-> "int", text |-> "", n |-> k]
JNull == [kind |-> "null", text |-> "", n |-> 0]
JArray == [kind |-> "array", text |-> "", n |-> 0]

\* Json::Value::asString: null reads as "", a number as its digits; an
\* array is not convertible and Json::LogicError is thrown.
asString(v) ==
    CASE v.kind = "string" -> [throws |-> FALSE, text |-> v.text]
      [] v.kind = "null" -> [throws |-> FALSE, text |-> ""]
      [] v.kind = "int" -> [throws |-> FALSE, text |-> ToString(v.n)]
      [] OTHER -> [throws |-> TRUE, text |-> ""]

\* Json::Value::asInt: null reads as 0; a string or an array is not
\* convertible.
asInt(v) ==
    CASE v.kind = "int" -> [throws |-> FALSE, n |-> v.n]
      [] v.kind = "null" -> [throws |-> FALSE, n |-> 0]
      [] OTHER -> [throws |-> TRUE, n |-> 0]

\* The text frames that may arrive: text that does not parse, a JSON value
\* that is no object, and objects with the members of the wire protocol.
FrameTypes ==
    { JStr("viewer-joined"), JStr("answer"), JStr("ice-candidate"),
      JStr("viewer-left"), JStr("offer"), JNull, JInt(1), JArray }
Frames ==
    { [ root |-> r, type |-> JNull, viewer_id |-> JNull, from |-> JNull,
        sdp |-> JNull, candidate |-> JNull, sdpMLineIndex |-> JNull ] :
        r \in {"invalid", "null", "array", "string", "number"} }
    \cup
    { [ root |-> "object", type |-> t, viewer_id |-> id, from |-> id,
        sdp |-> JStr("valid"), candidate |-> JStr("candidate"),
        sdpMLineIndex |-> m ] :
        t \in FrameTypes, id \in {JStr("A"), JNull},
        m \in {JInt(1), JNull} }

\* One invocation of a callback.
Call(cb, args) == [cb |-> cb, args |-> args]

\* handleMessage, lines 192-232: the callbacks invoked for a frame, and
\* whether an exception leaves the function.  parseFromStream rejects
\* text that is no JSON; root["type"] on a value that is neither an
\* object nor null throws.
handleMessage(frame, callbacks) ==
    LET none == [invoked |-> <<>>, throws |-> FALSE]
        thrown == [invoked |-> <<>>, throws |-> TRUE]
        type == asString(frame.type)
        viewer_id == asString(frame.viewer_id)
        from == asString(frame.from)
        sdp == asString(frame.sdp)
        candidate == asString(frame.candidate)
        sdp_mline_index == asInt(frame.sdpMLineIndex)
        invoke(cb, args) ==
            IF cb \in callbacks
            THEN [invoked |-> <<Call(cb, args)>>, throws |-> FALSE]
            ELSE none
    IN IF frame.root = "invalid" THEN none
       ELSE IF frame.root \notin {"object", "null"} THEN thrown
       ELSE IF type.throws THEN thrown
       ELSE CASE type.text = "viewer-joined" ->
                   IF viewer_id.throws THEN thrown
                   ELSE invoke("on_viewer_joined_", <<viewer_id.text>>)
              [] type.text = "answer" ->
                   IF from.throws \/ sdp.throws THEN thrown
                   ELSE invoke("on_answer_", <<from.text, sdp.text>>)
              [] type.text = "ice-candidate" ->
                   IF from.throws \/ candidate.throws
                      \/ sdp_mline_index.throws
                   THEN thrown
                   ELSE invoke("on_ice_candidate_",
                               <<from.text, candidate.text,
                                 ToString(sdp_mline_index.n)>>)
              [] type.text = "viewer-left" ->
                   IF viewer_id.throws THEN thrown
                   ELSE invoke("on_viewer_left_", <<viewer_id.text>>)
              [] OTHER -> none

\* SignalingClient as it is constructed: no callback registered.
InitFrames ==
    /\ peers = <<>>
    /\ viewers_ = {}
    /\ viewer_peers_ = {}
    /\ is_running_ = TRUE
    /\ pipeline_ = TRUE
    /\ mutex_ = "none"
    /\ sig = SigIdle
    /\ main = [pc |-> "run", h |-> 0]
    /\ callers = [t \in Callers |-> [pc |-> "off", sdp |-> ""]]
    /\ left_mid = {}
    /\ crashed = FALSE
    /\ proc = ProcStarted
    /\ turn = TurnOff
    /\ flow = FlowEmpty
    /\ encoder = EncoderReady
    /\ client = [ClientReady EXCEPT !.callbacks = {}]
    /\ gst = GstIdle

\* StreamManager's constructor registers the callbacks one after the
\* other (main.cpp:27-41, setOn...).
ClientSetCallback ==
    /\ \E i \in 1..Len(CallbackOrder) :
        /\ CallbackOrder[i] \notin client.callbacks
        /\ \A j \in 1..(i - 1) : CallbackOrder[j] \in client.callbacks
        /\ client' = [client EXCEPT !.callbacks = @ \cup {CallbackOrder[i]}]
    /\ UNCHANGED <<peers, viewers_, viewer_peers_, is_running_, pipeline_,
                   mutex_, sig, main, callers, left_mid, crashed, proc, turn,
                   flow, encoder, gst>>

\* A text frame arrives on the connection (opened after the constructor)
\* and handleMessage runs on the I/O thread, which has no handler for an
\* exception (signaling_client.cpp:68-70, 82-84): one that leaves
\* handleMessage ends the process.
ClientHandleMessage ==
    /\ client.callbacks = AllCallbacks
    /\ ~crashed
    /\ Len(client.log) < MaxFrames
    /\ \E frame \in Frames :
         LET r == handleMessage(frame, client.callbacks)
         IN /\ client' = [client EXCEPT
                            !.log = Append(@, [frame |-> frame,
                                               invoked |-> r.invoked])]
            /\ crashed' = r.throws
    /\ UNCHANGED <<peers, viewers_, viewer_peers_, is_running_, pipeline_,
                   mutex_, sig, main, callers, left_mid, proc, turn, flow,
                   encoder, gst>>

NextFrames ==
    \/ ClientSetCallback
    \/ ClientHandleMessage

SpecFrames == InitFrames /\ [][NextFrames]_vars

\* ------------------------------------------------ attaching, step by step
\* Buffers each tee pushes while a viewer is attached.
MaxAttachBuffers == 2

\* The mutation of C31: the tees are linked to the queues before the
\* queues are linked to webrtcbin.
AttachOrderTeeFirst ==
    << "webrtcbin_", "video_queue_", "audio_queue_", "bin_add",
       "video_tee_pad_", "audio_tee_pad_",
       "webrtc_video_sink_", "webrtc_audio_sink_",
       "sync_video_queue_", "sync_audio_queue_", "sync_webrtcbin_",
       "video_tee_probe_id_", "video_queue_sink_probe_id_",
       "link_vt_vq", "link_at_aq",
       "video_queue_src_probe_id_", "link_vq_wb", "link_aq_wb",
       "signals" >>
\* initialize(), lines 470-750: its calls on the framework in program
\* order.
AttachOrder ==
    << "webrtcbin_", "video_queue_", "audio_queue_", "bin_add",
       "video_tee_pad_", "audio_tee_pad_",
       "webrtc_video_sink_", "webrtc_audio_sink_",
       "sync_video_queue_", "sync_audio_queue_", "sync_webrtcbin_",
       "video_queue_src_probe_id_", "link_vq_wb", "link_aq_wb",
       "video_tee_probe_id_", "video_queue_sink_probe_id_",
       "link_vt_vq", "link_at_aq",
       "signals" >>

AttachIndex(step) ==
    CHOOSE i \in 1..Len(AttachOrder) : AttachOrder[i] = step

\* The calls of gst_element_sync_state_with_parent, and the element each
\* is made on.
SyncCalls == {"sync_video_queue_", "sync_audio_queue_", "sync_webrtcbin_"}
SyncTarget(step) ==
    CASE step = "sync_video_queue_" -> "video_queue_"
      [] step = "sync_audio_queue_" -> "audio_queue_"
      [] OTHER -> "webrtcbin_"

\* One call of initialize() on the framework; ok tells whether a call that
\* can fail succeeded.
AttachStep(p, step, ok) ==
    CASE step \in {"webrtcbin_", "video_queue_", "audio_queue_"} ->
             IF ok THEN [p EXCEPT !.elems = @ \cup {step}] ELSE p
      [] step = "bin_add" -> [p EXCEPT !.in_bin = p.pipeline_]
      [] step \in TeePads ->
             IF ok THEN [p EXCEPT !.pads = @ \cup {step},
                                  !.tee_ports = @ \cup {step}]
             ELSE p
      [] step \in SinkPads ->
             IF ok THEN [p EXCEPT !.pads = @ \cup {step}] ELSE p
      [] step \in SyncCalls ->
             IF p.in_bin THEN [p EXCEPT !.synced = @ \cup {SyncTarget(step)}]
             ELSE p
      [] step \in {"video_queue_src_probe_id_", "video_tee_probe_id_",
                   "video_queue_sink_probe_id_"} ->
             [p EXCEPT !.probes = @ \cup {step}]
      [] step \in {"link_vq_wb", "link_aq_wb", "link_vt_vq", "link_at_aq"} ->
             IF ok THEN [p EXCEPT !.links = @ \cup {step}] ELSE p
      [] OTHER -> [p EXCEPT !.signals = TRUE]

\* The tests of initialize() that make it return false, after the call
\* named.
AttachReturnsFalse(p, step) ==
    \/ step = "webrtcbin_" /\ "webrtcbin_" \notin p.elems
    \/ step = "audio_queue_" /\
         ~({"video_queue_", "audio_queue_"} \subseteq p.elems)
    \/ step = "audio_tee_pad_" /\ ~(TeePads \subseteq p.pads)
    \/ step = "webrtc_audio_sink_" /\ ~(SinkPads \subseteq p.pads)
    \/ step \in {"link_vq_wb", "link_aq_wb", "link_vt_vq", "link_at_aq"} /\
         step \notin p.links

\* The link that carries a stream from its tee to the viewer's queue, from
\* the queue to webrtcbin, and the queue itself.
TeeLink(k) == IF k = "video" THEN "link_vt_vq" ELSE "link_at_aq"
SinkLink(k) == IF k = "video" THEN "link_vq_wb" ELSE "link_aq_wb"
QueueOf(k) == IF k = "video" THEN "video_queue_" ELSE "audio_queue_"

\* addViewer, lines 326-345: the lock is taken, the viewer is new and a
\* WebRTCPeer is constructed; initialize() is about to run.
AttachBegin ==
    /\ sig.pc = "idle" /\ mutex_ = "none"
    /\ Len(peers) < MaxPeers
    /\ \E v \in Viewers :
        /\ ~ViewerExists(viewers_, v)
        /\ peers' = Append(peers, NewPeer(v, pipeline_))
        /\ sig' = [SigStart("viewer-joined", v) EXCEPT
                     !.h = Len(peers) + 1, !.pc = AttachOrder[1]]
    /\ mutex_' = "sig"
    /\ UNCHANGED <<viewers_, viewer_peers_, is_running_, pipeline_, main,
                   callers, left_mid, crashed, proc, turn, flow, encoder,
                   client, gst>>

\* The next call of initialize().  When a test after it fails, initialize()
\* returns false and addViewer deletes the peer (lines 347-351); after the
\* last call addViewer records the viewer (lines 353-356).  Both release
\* the lock.
AttachNext ==
    /\ sig.type = "viewer-joined"
    /\ \E i \in 1..Len(AttachOrder), ok \in BOOLEAN :
        /\ sig.pc = AttachOrder[i]
        /\ ok \/ AttachOrder[i] \in FailPoints
        /\ LET p == AttachStep(peers[sig.h], AttachOrder[i], ok)
           IN IF AttachReturnsFalse(p, AttachOrder[i])
              THEN /\ peers' = [peers EXCEPT ![sig.h] = DeletePeer(p)]
                   /\ flow' = [flow EXCEPT
                                 !.q[sig.h] = [k \in Kinds |-> <<>>]]
                   /\ sig' = SigIdle
                   /\ mutex_' = "none"
                   /\ viewers_' = viewers_
              ELSE IF i = Len(AttachOrder)
              THEN /\ peers' = [peers EXCEPT ![sig.h] = p]
                   /\ viewers_' = MapPut(viewers_, sig.vid, sig.h)
                   /\ sig' = SigIdle
                   /\ mutex_' = "none"
                   /\ flow' = flow
              ELSE /\ peers' = [peers EXCEPT ![sig.h] = p]
                   /\ sig' = [sig EXCEPT
                                !.pc = AttachOrder[i + 1],
                                !.effects =
                                  IF AttachOrder[i] \in SyncCalls
                                  THEN @ \cup {AttachOrder[i]} ELSE @]
                   /\ UNCHANGED <<viewers_, mutex_, flow>>
    /\ UNCHANGED <<viewer_peers_, is_running_, pipeline_, main, callers,
                   left_mid, crashed, proc, turn, encoder, client,
                   gst>>

\* The streaming thread of a tee pushes its next buffer on every source
\* pad; a pad linked to a queue that is running hands it to the queue, a
\* pad that is not linked or whose peer is flushing takes nothing
\* (allow-not-linked).
AttachTeePush ==
    /\ pipeline_
    /\ \E k \in Kinds :
        /\ flow.pushed[k] < MaxAttachBuffers
        /\ LET b == flow.pushed[k] + 1
               enters(h) == /\ h \in Handles
                            /\ TeeLink(k) \in peers[h].links
                            /\ QueueOf(k) \in peers[h].synced
           IN flow' = [flow EXCEPT
                  !.pushed[k] = b,
                  !.q = [h \in FlowPeers |->
                           [@[h] EXCEPT ![k] =
                              IF enters(h) THEN Append(@, b) ELSE @]]]
    /\ UNCHANGED <<peers, viewers_, viewer_peers_, is_running_, pipeline_,
                   mutex_, sig, main, callers, left_mid, crashed, proc, turn,
                   encoder, client, gst>>

\* The task of a queue's source pad takes the oldest buffer: webrtcbin
\* gets it when the pad is linked, otherwise the push fails with
\* not-linked and the buffer is lost.
AttachQueueLoop ==
    /\ \E h \in Handles, k \in Kinds :
        /\ h \in FlowPeers
        /\ flow.q[h][k] # <<>>
        /\ QueueOf(k) \in peers[h].synced
        /\ IF SinkLink(k) \in peers[h].links
           THEN flow' = [flow EXCEPT !.q[h][k] = Tail(@),
                                     !.out[h][k] = @ + 1]
           ELSE flow' = [flow EXCEPT !.q[h][k] = Tail(@),
                                     !.lost[h][k] = @ + 1]
    /\ UNCHANGED <<peers, viewers_, viewer_peers_, is_running_, pipeline_,
                   mutex_, sig, main, callers, left_mid, crashed, proc, turn,
                   encoder, client, gst>>

NextAttach ==
    \/ AttachBegin
    \/ AttachNext
    \/ AttachTeePush
    \/ AttachQueueLoop

\* The process with no viewer: streaming, or after stop() returned with
\* signaling still connected (main.cpp:115-121).
InitAttach ==
    /\ peers = <<>>
    /\ viewers_ = {}
    /\ viewer_peers_ = {}
    /\ \E running \in BOOLEAN : is_running_ = running /\ pipeline_ = running
    /\ mutex_ = "none"
    /\ sig = SigIdle
    /\ main = [pc |-> "run", h |-> 0]
    /\ callers = [t \in Callers |-> [pc |-> "off", sdp |-> ""]]
    /\ left_mid = {}
    /\ crashed = FALSE
    /\ proc = ProcStarted
    /\ turn = TurnOff
    /\ flow = FlowEmpty
    /\ encoder = EncoderReady
    /\ client = ClientReady
    /\ gst = GstIdle

SpecAttach == InitAttach /\ [][NextAttach]_vars

\* ------------------------------------------------ detaching, step by step
\* The mutation of C32: the elements are set to NULL before the request
\* pads of the tees are released.
CleanupOrderNullFirst ==
    << "disconnect_signals", "remove_probes", "unlink_video", "unlink_audio",
       "null_queues", "null_webrtcbin",
       "release_tee_pads", "release_sink_pads",
       "main_loop_spin", "bin_remove" >>
\* cleanup(), lines 786-955: its steps in program order.
CleanupOrder ==
    << "disconnect_signals", "remove_probes", "unlink_video", "unlink_audio",
       "release_tee_pads", "release_sink_pads",
       "null_queues", "null_webrtcbin",
       "main_loop_spin", "bin_remove" >>

\* One step of cleanup() on a peer, each under the guard the code puts
\* on it.
CleanupStep(p, step) ==
    LET vq == "video_queue_" \in p.elems
        aq == "audio_queue_" \in p.elems
        vt == "video_tee_pad_" \in p.pads
        at == "audio_tee_pad_" \in p.pads
        vs == "webrtc_video_sink_" \in p.pads
        as == "webrtc_audio_sink_" \in p.pads
        wb == "webrtcbin_" \in p.elems
    IN CASE step = "disconnect_signals" ->
               [p EXCEPT !.signals = IF wb THEN FALSE ELSE @]
         [] step = "remove_probes" ->
               [p EXCEPT !.probes = @ \
                   ((IF vt THEN {"video_tee_probe_id_"} ELSE {}) \cup
                    (IF vq THEN {"video_queue_sink_probe_id_",
                                 "video_queue_src_probe_id_"} ELSE {}))]
         [] step = "unlink_video" ->
               [p EXCEPT !.links = @ \
                   ((IF vt /\ vq THEN {"link_vt_vq"} ELSE {}) \cup
                    (IF vq /\ vs THEN {"link_vq_wb"} ELSE {}))]
         [] step = "unlink_audio" ->
               [p EXCEPT !.links = @ \
                   ((IF at /\ aq THEN {"link_at_aq"} ELSE {}) \cup
                    (IF aq /\ as THEN {"link_aq_wb"} ELSE {}))]
         [] step = "release_tee_pads" ->
               [p EXCEPT !.tee_ports = @ \ p.pads,
                         !.over_released =
                             @ \/ ((p.pads \cap TeePads) \ p.tee_ports # {}),
                         !.pads = @ \ TeePads]
         [] step = "release_sink_pads" ->
               [p EXCEPT !.pads = IF wb THEN @ \ SinkPads ELSE @]
         [] step = "null_queues" ->
               [p EXCEPT !.synced = @ \ {"video_queue_", "audio_queue_"}]
         [] step = "null_webrtcbin" ->
               [p EXCEPT !.synced = @ \ {"webrtcbin_"}]
         [] step = "main_loop_spin" -> p
         [] OTHER -> [p EXCEPT !.elems = {}, !.in_bin = FALSE]

\* addViewer as a whole (lines 326-362): a viewer is attached, or
\* initialize() fails and the peer is deleted, which runs cleanup() on
\* what was built.
DetachJoin ==
    /\ sig.pc = "idle" /\ mutex_ = "none"
    /\ Len(peers) < MaxPeers
    /\ \E v \in Viewers, failAt \in FailPoints :
        /\ ~ViewerExists(viewers_, v)
        /\ LET p == initialize(NewPeer(v, pipeline_), failAt)
           IN IF initializeOk(failAt)
              THEN /\ peers' = Append(peers, p)
                   /\ viewers_' = MapPut(viewers_, v, Len(peers) + 1)
                   /\ UNCHANGED <<sig, mutex_>>
              ELSE IF CleanupContinues(p)
              THEN /\ peers' = Append(peers, CleanupBegin(p))
                   /\ viewers_' = viewers_
                   /\ mutex_' = "sig"
                   /\ sig' = [SigStart("viewer-joined", v) EXCEPT
                                !.h = Len(peers) + 1,
                                !.pc = CleanupOrder[1]]
              ELSE /\ peers' = Append(peers, DeletePeer(p))
                   /\ viewers_' = viewers_
                   /\ UNCHANGED <<sig, mutex_>>
    /\ UNCHANGED <<viewer_peers_, is_running_, pipeline_, main, callers,
                   left_mid, crashed, proc, turn, flow, encoder, client,
                   gst>>

\* removeViewer, lines 364-374: the lock is taken, the viewer found and
\* its peer deleted; ~WebRTCPeer enters cleanup() (lines 752-776).
DetachLeft ==
    /\ sig.pc = "idle" /\ mutex_ = "none"
    /\ \E v \in Viewers :
        /\ MapHas(viewers_, v)
        /\ LET h == MapGet(viewers_, v) IN
           IF CleanupContinues(peers[h])
           THEN /\ peers' = [peers EXCEPT ![h] = CleanupBegin(peers[h])]
                /\ sig' = [SigStart("viewer-left", v) EXCEPT
                             !.h = h, !.pc = CleanupOrder[1]]
                /\ mutex_' = "sig"
                /\ viewers_' = viewers_
           ELSE /\ peers' = [peers EXCEPT ![h] = DeletePeer(peers[h])]
                /\ viewers_' = MapErase(viewers_, v)
                /\ UNCHANGED <<sig, mutex_>>
    /\ UNCHANGED <<viewer_peers_, is_running_, pipeline_, main,
                   callers, left_mid, crashed, proc, turn, flow, encoder,
                   client, gst>>

\* The next step of cleanup(); after the last one the peer's memory is
\* freed, removeViewer erases the record, and the lock is released.
DetachNext ==
    /\ \E i \in 1..Len(CleanupOrder) :
        /\ sig.pc = CleanupOrder[i]
        /\ LET p == CleanupStep(peers[sig.h], CleanupOrder[i])
           IN IF i < Len(CleanupOrder)
              THEN /\ peers' = [peers EXCEPT ![sig.h] = p]
                   /\ sig' = [sig EXCEPT
                                !.pc = CleanupOrder[i + 1],
                                !.effects =
                                  IF CleanupOrder[i] = "main_loop_spin"
                                  THEN @ \cup {"main_loop_spin"} ELSE @]
                   /\ UNCHANGED <<viewers_, mutex_>>
              ELSE /\ peers' = [peers EXCEPT ![sig.h] = Freed(p)]
                   /\ viewers_' = IF sig.type = "viewer-left"
                                  THEN MapErase(viewers_, sig.vid)
                                  ELSE viewers_
                   /\ sig' = SigIdle
                   /\ mutex_' = "none"
    /\ UNCHANGED <<viewer_peers_, is_running_, pipeline_, main, callers,
                   left_mid, crashed, proc, turn, flow, encoder, client,
                   gst>>

NextDetach ==
    \/ DetachJoin
    \/ DetachLeft
    \/ DetachNext

SpecDetach == InitAttach /\ [][NextDetach]_vars

\* ------------------------------------------------------------ createOffer
\* createOffer: const int max_wait.
MAX_WAIT == 20

\* The mutation of C33: the count read from get-transceivers is ignored.
TransceiversIgnored(count) == FALSE
\* createOffer, line 976: count >= 2 ends the polling.
TransceiversReady(count) == count >= 2

\* onViewerJoined, lines 140-145: addViewer returns the viewer's peer, an
\* existing one or a new one; without a peer the handler returns.
\* Otherwise the ICE callback is set and createOffer is entered.
OfferJoin ==
    /\ sig.pc = "idle" /\ mutex_ = "none"
    /\ \E v \in Viewers, failAt \in FailPoints :
        IF ViewerExists(viewers_, v)
        THEN /\ sig' = [SigStart("viewer-joined", v) EXCEPT
                          !.h = MapGet(viewers_, v), !.pc = "co_loop"]
             /\ UNCHANGED <<peers, viewers_>>
        ELSE /\ Len(peers) < MaxPeers
             /\ LET p == initialize(NewPeer(v, pipeline_), failAt)
                IN IF initializeOk(failAt)
                   THEN /\ peers' = Append(peers, p)
                        /\ viewers_' = MapPut(viewers_, v, Len(peers) + 1)
                        /\ sig' = [SigStart("viewer-joined", v) EXCEPT
                                     !.h = Len(peers) + 1, !.pc = "co_loop"]
                   ELSE /\ peers' = Append(peers, DeletePeer(p))
                        /\ viewers_' = viewers_
                        /\ sig' = SigDone("viewer-joined", v)
    /\ UNCHANGED <<viewer_peers_, is_running_, pipeline_, mutex_, main,
                   callers, left_mid, crashed, proc, turn, flow, encoder,
                   client, gst>>

\* createOffer, lines 968-985: one pass of the loop.  While wait_count is
\* below max_wait, get-transceivers is emitted; two transceivers end the
\* loop, fewer make the thread sleep 10 ms and count up.
OfferLoop ==
    /\ sig.pc = "co_loop"
    /\ IF sig.wait_count < MAX_WAIT
       THEN LET count == peers[sig.h].transceivers
            IN sig' = [sig EXCEPT
                         !.polls = @ + 1,
                         !.count = count,
                         !.pc = IF TransceiversReady(count)
                                THEN "co_emit" ELSE "co_loop",
                         !.wait_count = IF TransceiversReady(count)
                                        THEN @ ELSE @ + 1]
       ELSE sig' = [sig EXCEPT !.pc = "co_emit"]
    /\ UNCHANGED <<peers, viewers_, viewer_peers_, is_running_, pipeline_,
                   mutex_, main, callers, left_mid, crashed, proc, turn,
                   flow, encoder, client, gst>>

\* createOffer, lines 987-993, and onViewerJoined, line 158: create-offer
\* is emitted with a promise, and the peer is put in viewer_peers_.
OfferEmit ==
    /\ sig.pc = "co_emit"
    /\ peers' = [peers EXCEPT ![sig.h].offer_pending = TRUE]
    /\ viewer_peers_' = MapPut(viewer_peers_, sig.vid, sig.h)
    /\ sig' = [sig EXCEPT !.pc = "ret", !.requests = @ + 1,
                          !.effects = @ \cup {"create-offer"}]
    /\ UNCHANGED <<viewers_, is_running_, pipeline_, mutex_, main, callers,
                   left_mid, crashed, proc, turn, flow, encoder, client,
                   gst>>

\* webrtcbin on a framework thread: a transceiver comes to exist for a
\* sink pad.
GstTransceiverAdded ==
    /\ \E h \in Handles :
        /\ peers[h].alive /\ ElementLive(peers[h])
        /\ peers[h].transceivers < 2
        /\ peers' = [peers EXCEPT ![h].transceivers = @ + 1]
    /\ UNCHANGED <<viewers_, viewer_peers_, is_running_, pipeline_, mutex_,
                   sig, main, callers, left_mid, crashed, proc, turn, flow,
                   encoder, client, gst>>

NextOffer ==
    \/ OfferJoin
    \/ OfferLoop
    \/ OfferEmit
    \/ GstTransceiverAdded
    \/ GstOfferCreated
    \/ SigReturn

SpecOffer == Init /\ [][NextOffer]_vars

\* The signaling thread is scheduled: a loop pass, the emission and the
\* return happen when they can.
SpecOfferFair ==
    /\ SpecOffer
    /\ WF_vars(OfferLoop) /\ WF_vars(OfferEmit) /\ WF_vars(SigReturn)

\* ------------------------------------------------- local ICE candidates
MaxLocalCand == 2

\* What webrtcbin hands to on-ice-candidate: a candidate string with its
\* mline index; the empty string ends the gathering.
LocalCandidates ==
    { [candidate |-> "", mlineindex |-> 0],
      [candidate |-> "candidate:1", mlineindex |-> 0],
      [candidate |-> "candidate:1", mlineindex |-> 1] }

\* SignalingClient::sendIceCandidate: the message handed to sendMessage.
sendIceCandidate(peer_id, candidate, sdp_mline_index) ==
    [ type |-> "ice-candidate", to |-> peer_id, candidate |-> candidate,
      sdpMLineIndex |-> sdp_mline_index ]

\* What a call of ice_candidate_callback_ can do while another thread
\* assigns the std::function: nothing synchronises the two, the reader may
\* run the old target after the assignment freed it.
RacingCallOutcomes == {"sent", "freed_capture", "crash"}
CallOutcomes(p) == IF p.callback_writing THEN RacingCallOutcomes ELSE {"sent"}

\* onViewerJoined, line 140: addViewer.
CandJoin ==
    /\ ~crashed /\ sig.pc = "idle" /\ mutex_ = "none"
    /\ \E v \in Viewers, failAt \in FailPoints :
        IF ViewerExists(viewers_, v)
        THEN /\ sig' = [SigStart("viewer-joined", v) EXCEPT
                          !.h = MapGet(viewers_, v), !.pc = "set_callback"]
             /\ UNCHANGED <<peers, viewers_>>
        ELSE /\ Len(peers) < MaxPeers
             /\ LET p == initialize(NewPeer(v, pipeline_), failAt)
                IN IF initializeOk(failAt)
                   THEN /\ peers' = Append(peers, p)
                        /\ viewers_' = MapPut(viewers_, v, Len(peers) + 1)
                        /\ sig' = [SigStart("viewer-joined", v) EXCEPT
                                     !.h = Len(peers) + 1,
                                     !.pc = "set_callback"]
                   ELSE /\ peers' = Append(peers, DeletePeer(p))
                        /\ viewers_' = viewers_
                        /\ sig' = SigDone("viewer-joined", v)
    /\ UNCHANGED <<viewer_peers_, is_running_, pipeline_, mutex_, main,
                   callers, left_mid, crashed, proc, turn, flow, encoder,
                   client, gst>>

\* onViewerJoined, line 148, setIceCandidateCallback, line 1226: the
\* assignment of the std::function begins; no lock is held.
CandSetCallback ==
    /\ ~crashed /\ sig.pc = "set_callback"
    /\ peers' = [peers EXCEPT ![sig.h].callback_writing = TRUE]
    /\ sig' = [sig EXCEPT !.pc = "callback_set"]
    /\ UNCHANGED <<viewers_, viewer_peers_, is_running_, pipeline_, mutex_,
                   main, callers, left_mid, crashed, proc, turn, flow,
                   encoder, client, gst>>

\* The assignment ends: the callback captures viewer_id.  Then
\* onViewerJoined, lines 152-158: createOffer and viewer_peers_.
CandCreateOffer ==
    /\ ~crashed /\ sig.pc = "callback_set"
    /\ peers' = [peers EXCEPT
                   ![sig.h].callback_writing = FALSE,
                   ![sig.h].ice_candidate_callback_ = sig.vid,
                   ![sig.h].offer_pending = TRUE]
    /\ viewer_peers_' = MapPut(viewer_peers_, sig.vid, sig.h)
    /\ sig' = [sig EXCEPT !.pc = "ret"]
    /\ UNCHANGED <<viewers_, is_running_, pipeline_, mutex_, main, callers,
                   left_mid, crashed, proc, turn, flow, encoder, client,
                   gst>>

\* WebRTCPeer::onIceCandidate on webrtcbin's thread, for a session whose
\* local description is set: an empty candidate is only logged; another one
\* goes to ice_candidate_callback_ when that is set, which calls
\* sendIceCandidate(viewer_id, candidate, index).
GstLocalCandidate ==
    /\ ~crashed
    /\ \E h \in Handles, g \in LocalCandidates :
        LET p == peers[h]
            candidate == g.candidate
            mlineindex == g.mlineindex
        IN
        /\ p.alive /\ ElementLive(p) /\ p.local_desc
        /\ p.signals /\ gst.pc = "idle"
        /\ Len(client.sent) < MaxLocalCand
        /\ Len(p.gathered) < MaxLocalCand
        /\ peers' = [peers EXCEPT ![h].gathered =
                        Append(@, [candidate |-> candidate,
                                   mlineindex |-> mlineindex])]
        /\ IF candidate = "" \/ (p.ice_candidate_callback_ = "none"
                                    /\ ~p.callback_writing)
           THEN UNCHANGED <<client, crashed>>
           ELSE \E outcome \in CallOutcomes(p) :
                  CASE outcome = "sent" ->
                         /\ client' = [client EXCEPT !.sent = Append(@,
                              sendIceCandidate(IF p.ice_candidate_callback_ = "none"
                                               THEN p.vid
                                               ELSE p.ice_candidate_callback_,
                                               candidate, mlineindex))]
                         /\ crashed' = crashed
                    [] outcome = "freed_capture" ->
                         /\ client' = [client EXCEPT !.sent = Append(@,
                              sendIceCandidate("freed", candidate,
                                               mlineindex))]
                         /\ crashed' = crashed
                    [] outcome = "crash" ->
                         /\ crashed' = TRUE
                         /\ client' = client
    /\ UNCHANGED <<viewers_, viewer_peers_, is_running_, pipeline_, mutex_,
                   sig, main, callers, left_mid, proc, turn, flow, encoder,
                   gst>>

NextCandidates ==
    \/ CandJoin
    \/ CandSetCallback
    \/ CandCreateOffer
    \/ GstOfferCreated
    \/ GstLocalCandidate
    \/ SigReturn

SpecCandidates == Init /\ [][NextCandidates]_vars

\* ------------------------------------- completions and the end of a peer
\* SignalingClient::sendOffer: the message handed to sendMessage.
sendOffer(viewer_id, sdp) ==
    [ type |-> "offer", to |-> viewer_id, sdp |-> sdp ]

\* The mutation of C35: setting webrtcbin_ to NULL returns while a callback
\* of its thread is still running.
NullReturnsAtOnce(h) == TRUE
\* cleanup(), gst_element_set_state(webrtcbin_, GST_STATE_NULL): the state
\* change stops webrtcbin's thread and returns when the callback that
\* thread runs, if any, has returned.
NullJoinsThread(h) == gst.pc = "idle" \/ gst.h # h

\* onViewerJoined as a whole for a viewer, registered or not: addViewer,
\* the ICE callback, createOffer's request with its promise, viewer_peers_.
PromiseJoin ==
    /\ ~crashed /\ sig.pc = "idle" /\ mutex_ = "none"
    /\ \E v \in Viewers, failAt \in FailPoints :
        IF ViewerExists(viewers_, v)
        THEN LET h == MapGet(viewers_, v) IN
             /\ peers' = [peers EXCEPT
                            ![h].ice_candidate_callback_ = v,
                            ![h].offer_pending = TRUE]
             /\ viewer_peers_' = MapPut(viewer_peers_, v, h)
             /\ viewers_' = viewers_
        ELSE /\ Len(peers) < MaxPeers
             /\ LET p == initialize(NewPeer(v, pipeline_), failAt)
                    h == Len(peers) + 1
                IN IF initializeOk(failAt)
                   THEN /\ peers' = Append(peers,
                              [p EXCEPT !.ice_candidate_callback_ = v,
                                        !.offer_pending = TRUE])
                        /\ viewers_' = MapPut(viewers_, v, h)
                        /\ viewer_peers_' = MapPut(viewer_peers_, v, h)
                   ELSE /\ peers' = Append(peers, DeletePeer(p))
                        /\ UNCHANGED <<viewers_, viewer_peers_>>
    /\ UNCHANGED <<is_running_, pipeline_, mutex_, sig, main, callers,
                   left_mid, crashed, proc, turn, flow, encoder, client,
                   gst>>

\* onOfferCreated, lines 996-1014, on webrtcbin's thread, which runs while
\* the element follows the pipeline's state: the promise's reply is read
\* and the offer set as local description.
GstOfferBegin ==
    /\ ~crashed /\ gst.pc = "idle"
    /\ Len(client.sent) < MaxLocalCand
    /\ \E h \in Handles, sdp \in {"offer-sdp"} :
        /\ peers[h].offer_pending
        /\ peers[h].alive /\ "webrtcbin_" \in peers[h].synced
        /\ peers' = [peers EXCEPT ![h].offer_pending = FALSE,
                                  ![h].local_desc = TRUE]
        /\ gst' = [pc |-> "offer_callback", h |-> h, sdp |-> sdp]
    /\ UNCHANGED <<viewers_, viewer_peers_, is_running_, pipeline_, mutex_,
                   sig, main, callers, left_mid, crashed, proc, turn, flow,
                   encoder, client>>

\* onOfferCreated, lines 1016-1049: the SDP text is made, the peer's
\* viewer_id_ logged, and offer_callback_ sends the offer to the viewer.
\* On a peer that was deleted meanwhile this reads freed memory.
GstOfferCallback ==
    /\ ~crashed /\ gst.pc = "offer_callback"
    /\ IF peers[gst.h].alive
       THEN /\ client' = [client EXCEPT !.sent =
                            Append(@, sendOffer(peers[gst.h].vid, gst.sdp))]
            /\ peers' = [peers EXCEPT ![gst.h].offer_sent = TRUE]
            /\ crashed' = crashed
       ELSE /\ crashed' = TRUE
            /\ UNCHANGED <<client, peers>>
    /\ gst' = GstIdle
    /\ UNCHANGED <<viewers_, viewer_peers_, is_running_, pipeline_, mutex_,
                   sig, main, callers, left_mid, proc, turn, flow, encoder>>

\* onViewerLeft, line 189: removeViewer takes the lock, finds the viewer
\* and deletes its peer; ~WebRTCPeer enters cleanup().
PromiseLeft ==
    /\ ~crashed /\ sig.pc = "idle" /\ mutex_ = "none"
    /\ \E v \in Viewers :
        /\ MapHas(viewers_, v)
        /\ LET h == MapGet(viewers_, v) IN
           /\ CleanupContinues(peers[h])
           /\ peers' = [peers EXCEPT ![h] = CleanupBegin(peers[h])]
           /\ sig' = [SigStart("viewer-left", v) EXCEPT
                        !.h = h, !.pc = CleanupOrder[1]]
           /\ mutex_' = "sig"
    /\ UNCHANGED <<viewers_, viewer_peers_, is_running_, pipeline_, main,
                   callers, left_mid, crashed, proc, turn, flow, encoder,
                   client, gst>>

\* The next step of cleanup().  After the last one the peer's memory is
\* freed, removeViewer erases the record and releases the lock, and
\* onViewerLeft, line 190, erases the viewer from viewer_peers_.
PromiseCleanupNext ==
    /\ ~crashed
    /\ \E i \in 1..Len(CleanupOrder) :
        /\ sig.pc = CleanupOrder[i]
        /\ CleanupOrder[i] = "null_webrtcbin" => NullJoinsThread(sig.h)
        /\ LET p == CleanupStep(peers[sig.h], CleanupOrder[i])
           IN IF i < Len(CleanupOrder)
              THEN /\ peers' = [peers EXCEPT ![sig.h] = p]
                   /\ sig' = [sig EXCEPT !.pc = CleanupOrder[i + 1]]
                   /\ UNCHANGED <<viewers_, viewer_peers_, mutex_>>
              ELSE /\ peers' = [peers EXCEPT ![sig.h] = Freed(p)]
                   /\ viewers_' = MapErase(viewers_, sig.vid)
                   /\ viewer_peers_' = MapErase(viewer_peers_, sig.vid)
                   /\ sig' = SigIdle
                   /\ mutex_' = "none"
    /\ UNCHANGED <<is_running_, pipeline_, main, callers, left_mid, crashed,
                   proc, turn, flow, encoder, client, gst>>

\* StreamManager::stop(), lines 111-121, on the main thread:
\* SharedMediaPipeline::stop() cleans up and deletes every peer under the
\* lock, which waits for the callbacks running on them, clears viewers_
\* and drops the pipeline; then viewer_peers_ is cleared.
PromiseStop ==
    /\ ~crashed /\ main.pc = "run" /\ mutex_ = "none" /\ is_running_
    /\ \A e \in viewers_ : NullJoinsThread(e[2])
    /\ peers' = [h \in Handles |->
                   IF \E e \in viewers_ : e[2] = h
                   THEN DeletePeer(peers[h]) ELSE peers[h]]
    /\ viewers_' = {}
    /\ viewer_peers_' = {}
    /\ pipeline_' = FALSE
    /\ is_running_' = FALSE
    /\ main' = [main EXCEPT !.pc = "stopped"]
    /\ UNCHANGED <<mutex_, sig, callers, left_mid, crashed, proc, turn,
                   flow, encoder, client, gst>>

NextPromise ==
    \/ PromiseJoin
    \/ GstOfferBegin
    \/ GstOfferCallback
    \/ GstLocalCandidate
    \/ PromiseLeft
    \/ PromiseCleanupNext
    \/ PromiseStop

SpecPromise == Init /\ [][NextPromise]_vars

\* ---------------------------------------------------------------- claims
IsPrefix(s, t) == Len(s) <= Len(t) /\ SubSeq(t, 1, Len(s)) = s

\* C1: in every interleaving of addIceCandidate and setRemoteAnswer calls,
\* a step submits a candidate to the ICE agent only while
\* remote_description_set_ is true, and a candidate that arrives while the
\* flag is false is appended to the pending queue and nothing is submitted.
C1_RemoteDescriptionGate ==
    [][\A h \in DOMAIN peers :
         LET p == peers[h]
             q == peers'[h]
         IN /\ Len(q.submitted) > Len(p.submitted)
                 => p.remote_description_set_ /\ q.remote_description_set_
            /\ (~p.remote_description_set_ /\ Len(q.received) > Len(p.received))
                 => /\ q.queued_ice_candidates_ =
                          Append(p.queued_ice_candidates_,
                                 q.received[Len(q.received)])
                    /\ q.submitted = p.submitted]_vars

\* C1's case: candidates arrived before the flag was set, with a
\* setRemoteAnswer call in flight on another thread.
C1_Witness ==
    /\ ~peers[1].remote_description_set_
    /\ Len(peers[1].queued_ice_candidates_) >= 2
    /\ peers[1].submitted = <<>>
    /\ \E t \in Callers : callers[t].pc = "sra_wait"

\* C2: the candidates submitted to the ICE agent are, in order, the
\* candidates received from signaling, also when addIceCandidate runs on a
\* thread concurrent with setRemoteAnswer: what was submitted is always a
\* prefix of what was received.
C2_SubmissionOrder ==
    \A h \in DOMAIN peers :
        peers[h].alive => IsPrefix(peers[h].submitted, peers[h].received)

\* The viewer has a record in both registries, for the same peer.
Registered(v) ==
    /\ MapHas(viewers_, v) /\ MapHas(viewer_peers_, v)
    /\ MapGet(viewers_, v) = MapGet(viewer_peers_, v)

\* C3: for a registered viewer, the candidates delivered before its answer
\* are all in the pending queue with nothing submitted (as long as the peer
\* has not been cleaned up); once its answer has been processed
\* (setRemoteAnswer returned) the ICE agent has received exactly the
\* delivered candidates, in arrival order, and the queue is empty.
C3_QueuedThenFlushed ==
    \A v \in Viewers :
        Registered(v) /\ peers[MapGet(viewer_peers_, v)].alive =>
            LET p == peers[MapGet(viewer_peers_, v)] IN
            /\ (~p.flushed /\ ~p.cleaned_up_) =>
                   /\ p.queued_ice_candidates_ = p.received
                   /\ p.submitted = <<>>
            /\ (sig.type = "answer" /\ sig.vid = v /\ sig.pc = "ans_kf") =>
                   /\ p.submitted = p.received
                   /\ p.queued_ice_candidates_ = <<>>

\* C4: viewers_ never holds two records for one viewer id, and at most one
\* live WebRTCPeer exists per viewer id.
C4_RegistryUnique ==
    \A v \in Viewers :
        /\ Cardinality({e \in viewers_ : e[1] = v}) <= 1
        /\ Cardinality({h \in Handles :
                           peers[h].alive /\ peers[h].vid = v}) <= 1

\* C4's case: viewer-joined was processed for a viewer that is already
\* registered and whose offer had already gone out.
C4_Witness ==
    /\ sig.type = "viewer-joined" /\ sig.pc = "join_offer"
    /\ MapHas(viewers_, sig.vid)
    /\ peers[sig.h].alive /\ peers[sig.h].offer_sent
    /\ \E w \in Viewers : w # sig.vid /\ MapHas(viewers_, w)

\* C5: every tee request port acquired for a viewer is released exactly
\* once: no port is released twice, a destroyed peer holds none, and a peer
\* without a record in viewers_ holds none.
C5_TeePortsReleasedOnce ==
    \A h \in Handles :
        /\ ~peers[h].over_released
        /\ ~peers[h].alive => peers[h].tee_ports = {}
        /\ (\A e \in viewers_ : e[2] # h) => peers[h].tee_ports = {}

\* C6: cleanup is idempotent: for every live peer, one call of cleanup()
\* leaves it without tee ports, WebRTC sink ports and probes, and a second
\* call changes nothing.
C6_CleanupIdempotent ==
    \A h \in Handles :
        peers[h].alive /\ ~(main.pc = "stop_teardown" /\ main.h = h) =>
            LET q == cleanup(peers[h]) IN
            /\ q.tee_ports = {} /\ q.pads = {} /\ q.probes = {}
            /\ cleanup(q) = q

\* C7: once stop() has begun, no step creates a peer or adds a record to
\* viewers_.
C7_NoRecordAfterStop ==
    [][main.pc # "run" =>
          /\ Len(peers') = Len(peers)
          /\ viewers_' \subseteq viewers_]_vars

\* C8: after viewer-left was processed for a viewer between its offer and
\* its answer, the viewer is in neither registry, no tee port is allocated
\* for it, and an answer or ice-candidate from it performs no
\* set-remote-description, no candidate submission and no force_keyframe.
C8_LateMessagesDropped ==
    \A v \in left_mid :
        /\ ~MapHas(viewers_, v)
        /\ ~MapHas(viewer_peers_, v)
        /\ \A h \in Handles : peers[h].vid = v => peers[h].tee_ports = {}
        /\ (sig.vid = v /\ sig.type \in {"answer", "ice-candidate"}) =>
               /\ sig.effects = {} /\ sig.kf = 0
               /\ sig.pc \in {"ret"}

\* C8's case: the viewer left mid-handshake and its late answer was handled.
C8_Witness ==
    /\ sig.type = "answer" /\ sig.pc = "ret"
    /\ sig.vid \in left_mid
    /\ main.pc = "run"

\* C9: after stop() has returned, viewers_ is empty and no viewer holds a
\* tee request port; no viewer is still attached once the pipeline has been
\* set to NULL and released.
C9_StopDetachesAll ==
    /\ main.pc \in {"clear_peers", "disconnect", "destroy", "exited"} =>
           /\ viewers_ = {}
           /\ \A h \in Handles : peers[h].tee_ports = {}
    /\ ~pipeline_ =>
           \A h \in Handles : peers[h].tee_ports = {} /\ ~peers[h].in_bin

\* C10: while an answer is handled, force_keyframe is issued at most once
\* and only after setRemoteAnswer emitted set-remote-description and
\* returned with the remote description applied; when the handler returns
\* it was issued exactly once for a registered viewer and not at all for
\* an unknown one.
C10_KeyframeAfterAnswer ==
    sig.type = "answer" =>
        /\ sig.kf > 0 =>
               /\ sig.kf = 1
               /\ sig.h # 0
               /\ "set-remote-description" \in sig.effects
               /\ peers[sig.h].alive =>
                      /\ peers[sig.h].remote_applied
        /\ sig.pc = "ret" => sig.kf = (IF sig.h = 0 THEN 0 ELSE 1)

\* The session of viewer v reported a failed ICE or peer connection.
SessionFailed(v) ==
    /\ MapHas(viewers_, v)
    /\ peers[MapGet(viewers_, v)].alive
    /\ \/ peers[MapGet(viewers_, v)].ice_connection_state = "failed"
       \/ peers[MapGet(viewers_, v)].connection_state = "failed"

\* C11: when a viewer's ICE connection state or connection state becomes
\* failed, the viewer is eventually detached and its record removed from
\* both registries.
C11_FailedViewerRemoved ==
    \A v \in Viewers :
        SessionFailed(v) ~> (~MapHas(viewers_, v) /\ ~MapHas(viewer_peers_, v))

\* C12: when an error message is delivered on the shared pipeline's bus,
\* eventually all viewers are detached, the system is stopped and the
\* process has exited with a non-zero status.
C12_BusErrorStopsSystem ==
    proc.bus_error ~>
        (main.pc = "exited" /\ proc.exit_code # 0 /\ viewers_ = {})

\* The signaling thread is in onViewerJoined for a viewer whose peer
\* addViewer found in the registry.
RepeatedJoin ==
    /\ sig.type = "viewer-joined" /\ sig.pc = "join_offer"
    /\ MapHas(viewer_peers_, sig.vid)
    /\ MapGet(viewer_peers_, sig.vid) = sig.h
    /\ peers[sig.h].alive

\* C13: a viewer-joined event for a viewer id that is already in the
\* registry has no effect: the rest of the handler creates no peer, leaves
\* both registries as they are and requests no further offer.
C13_RepeatedJoinNoEffect ==
    [][(RepeatedJoin /\ sig' # sig) =>
          /\ Len(peers') = Len(peers)
          /\ viewers_' = viewers_
          /\ viewer_peers_' = viewer_peers_
          /\ peers'[sig.h].offer_pending = peers[sig.h].offer_pending]_vars

\* C14: when a step of attaching a new viewer fails, the join is rejected
\* with every allocation reversed: the viewer is in neither registry, the
\* rejected peer holds no tee port, and the records and peers of all other
\* viewers are unchanged.
C14_FailedJoinReversed ==
    [][(sig.pc = "idle" /\ sig'.type = "viewer-joined" /\ sig'.pc = "ret") =>
          /\ viewers_' = viewers_
          /\ viewer_peers_' = viewer_peers_
          /\ \A h \in DOMAIN peers : peers'[h] = peers[h]
          /\ ~MapHas(viewers_', sig'.vid)
          /\ ~MapHas(viewer_peers_', sig'.vid)
          /\ Len(peers') = Len(peers) + 1
          /\ peers'[Len(peers')].tee_ports = {}
          /\ ~peers'[Len(peers')].over_released]_vars

\* C15: per viewer, the handling of viewer-joined, including the creation
\* and sending of the offer, is complete before an answer, ice-candidate
\* or viewer-left of that viewer is processed: when such a handler starts
\* for a registered viewer, the viewer's offer has been created and sent.
C15_JoinCompletesFirst ==
    [][(/\ sig.pc = "idle"
        /\ sig'.type \in {"answer", "ice-candidate", "viewer-left"}
        /\ MapHas(viewer_peers_, sig'.vid)
        /\ peers[MapGet(viewer_peers_, sig'.vid)].alive) =>
          /\ ~peers[MapGet(viewer_peers_, sig'.vid)].offer_pending
          /\ peers[MapGet(viewer_peers_, sig'.vid)].offer_sent]_vars

\* C16: a caller that waited at the lock while another caller's request
\* was in flight returns that request's result and issues none of its
\* own, so that concurrent calls on stale credentials make one request.
C16_OneRequestForWaiters ==
    \A t \in Callers : turn.th[t].pc = "fetch" => ~turn.th[t].waited

\* C17: a call is served from the cache, without a request, exactly when
\* the cached credentials are valid and now + 300 s < expires_at; every
\* other call issues a fetch, and a successful fetch sets
\* expires_at = now + ttl_seconds.
C17_CachedWithinMargin ==
    [][\A t \in Callers :
         /\ (turn.th[t].pc = "lock" /\ turn'.th[t].pc # "lock") =>
              ( turn'.th[t].pc = "done" <=>
                  ( /\ turn.credentials_.valid
                    /\ turn.now + Seconds(REFRESH_MARGIN_SECONDS)
                         < turn.credentials_.expires_at ) )
         /\ ( /\ turn.th[t].pc = "fetch"
              /\ turn'.th[t].pc = "done"
              /\ turn'.th[t].result.valid ) =>
              turn'.credentials_.expires_at
                = turn.now + Seconds(turn.ttl_seconds)
    ]_vars

FetchFailed(t) ==
    turn.th[t].pc = "done" /\ turn.th[t].outcome \notin {"ok", "cached"}

C20_LeakyQueues ==
    [][\A k \in Kinds :
         flow'.pushed[k] = flow.pushed[k] + 1 =>
           /\ ~flow'.tee_blocked[k]
           /\ \A h \in FlowPeers :
                LET q  == flow.q[h][k]
                    q2 == flow'.q[h][k]
                    b  == flow'.pushed[k]
                IN /\ Len(q2) <= (IF k = "video" THEN 30 ELSE 50)
                   /\ \/ q2 = Append(q, b)
                      \/ /\ q # <<>>
                         /\ q2 = Append(Tail(q), b)
                         /\ \/ Len(q) = (IF k = "video" THEN 30 ELSE 50)
                            \/ Len(q) * flow.dur[k] >= 1000
    ]_vars

\* One viewer's video queue is full and has dropped its oldest buffer
\* while the other viewer, served from the same tee, has lost none.
C20_Witness ==
    /\ Len(flow.q[1]["video"]) = 30
    /\ flow.lost[1]["video"] > 0
    /\ Head(flow.q[1]["video"]) = 2
    /\ flow.lost[2]["video"] = 0
    /\ flow.out[2]["video"] > 0
    /\ flow.pushed["video"] = 31

\* C21: mutex_ is held only for operations on the map: it is free while a
\* departing viewer's detach is in its bounded waits, while a joining
\* viewer's attachment is built, and while stop() tears a peer down.
C21_LockOnlyForMapOperations ==
    /\ sig.pc \in {"left_wait", "join_build"} => mutex_ = "none"
    /\ main.pc = "stop_teardown" => mutex_ = "none"

\* C22: a thread that enters cleanup() while another thread's cleanup of
\* the same peer is in progress returns at once: it is never kept waiting
\* for the first to finish, and it performs no teardown step.
C22_SecondEntryReturnsAtOnce ==
    \A t \in Callers : callers[t].pc # "cleanup_blocked"

\* C23: when the answer handed to a registered viewer's session cannot be
\* parsed, or set-remote-description does not complete successfully, the
\* handler leaves the viewer detached and removed from both maps.
C23_BadAnswerDetachesViewer ==
    ( /\ sig.type = "answer" /\ sig.pc = "ret" /\ sig.h # 0
      /\ peers[sig.h].alive
      /\ SetRemoteResult(peers[sig.h], sig.sdp) # "replied" ) =>
        /\ ~MapHas(viewers_, sig.vid)
        /\ ~MapHas(viewer_peers_, sig.vid)

\* C24: set-remote-description is issued only on a session whose local
\* offer has been created and set as local description (never on a session
\* still in New), and at most once per session.
C24_AnswerOnlyAfterLocalOffer ==
    [][( /\ sig.pc = "idle"
         /\ sig'.type = "answer"
         /\ "set-remote-description" \in sig'.effects ) =>
           /\ peers[sig'.h].local_desc
           /\ ~peers[sig'.h].remote_description_set_
    ]_vars

\* C25: forceKeyframe sends the force-key-unit event first and enters the
\* fallback only when the encoder refused it; the fallback sets the GOP
\* maximum to 1 and schedules its restore; once no call is in progress and
\* every scheduled restore has fired the GOP maximum is what it was before
\* the first call; without encoder reference nothing changes.
C25_KeyframeFallbackRestores ==
    /\ \A t \in Callers :
         encoder.th[t].pc # "idle" => ~encoder.th[t].accepted
    /\ \A t \in Callers :
         encoder.th[t].pc = "kf_timer" => encoder.key_int_max \in {1, 30}
    /\ ( /\ encoder.timers = <<>>
         /\ \A t \in Callers : encoder.th[t].pc = "idle" ) =>
           encoder.key_int_max = KeyIntMax
    /\ encoder.key_int_max \in {1, 30}
    /\ encoder.restored + Len(encoder.timers) <= encoder.events
    /\ ~encoder.present =>
         /\ encoder.events = 0 /\ encoder.timers = <<>>
         /\ encoder.key_int_max = KeyIntMax

\* Two fallbacks overlapped, both restores have fired and the GOP maximum
\* is back at its value.
C25_Witness ==
    /\ encoder.overlapped
    /\ encoder.restored >= 2
    /\ encoder.timers = <<>>
    /\ \A t \in Callers : encoder.th[t].pc = "idle"
    /\ encoder.key_int_max = KeyIntMax

\* The urls of a list that name a TURN server over UDP or with no
\* transport given, and those that name a TURNS server.
PreferredTurnUrls(urls) ==
    { urls[i] : i \in { j \in 1..Len(urls) :
        /\ StartsWith(urls[j], <<"turn", ":">>)
        /\ \/ Find(urls[j], <<"transport=", "udp">>) # 0
           \/ Find(urls[j], <<"transport=">>) = 0 } }
TurnsUrls(urls) ==
    { urls[i] : i \in { j \in 1..Len(urls) :
        StartsWith(urls[j], <<"turns", ":">>) } }
FirstUrlIn(urls, S) ==
    urls[CHOOSE i \in 1..Len(urls) :
            urls[i] \in S /\ \A j \in 1..(i - 1) : urls[j] \notin S]

\* C26: once credentials were parsed from the issuer's answer, turn_uri is
\* the first turn: URL of the list whose transport is udp or unspecified,
\* and turns_uri the first turns: URL of the list, whatever the order and
\* the number of the URLs.
C26_FirstUrlsSelected ==
    turn.credentials_.valid =>
        /\ PreferredTurnUrls(turn.response) # {} =>
             turn.credentials_.turn_uri =
                 FirstUrlIn(turn.response, PreferredTurnUrls(turn.response))
        /\ TurnsUrls(turn.response) # {} =>
             turn.credentials_.turns_uri =
                 FirstUrlIn(turn.response, TurnsUrls(turn.response))

\* The tokens that separate the parts of a URL.
UrlSeparators == {":", "/", "?", "@"}

\* <scheme>://<user>:<pass>@<host>:<port>[?transport=udp], scheme turn or
\* turns.
AuthenticatedTurnUrl(uri) ==
    LET at == Find(uri, <<"@">>)
        cred == SubSeq(uri, 5, at - 1)
        colon == Find(cred, <<":">>)
        rest == Substr(uri, at + 1)
    IN /\ Len(uri) >= 4
       /\ uri[1] \in {"turn", "turns"}
       /\ SubSeq(uri, 2, 4) = <<":", "/", "/">>
       /\ at > 5
       /\ colon > 1 /\ colon < Len(cred)
       /\ \A i \in 1..Len(cred) : i # colon => cred[i] \notin UrlSeparators
       /\ Len(rest) >= 3
       /\ rest[1] \notin UrlSeparators
       /\ rest[2] = ":"
       /\ rest[3] \notin UrlSeparators
       /\ Substr(rest, 4) \in {<<>>, <<"?", "transport=", "udp">>}

\* The part of an authenticated URL between "://" and "@".
UrlCredentials(uri) == SubSeq(uri, 5, Find(uri, <<"@">>) - 1)

\* C27: with TURN configured with a username, the turn-server of every
\* registered session is an authenticated URL carrying the configured
\* credentials, for the static TURN_SERVER forms as for the dynamic
\* credentials; a dynamic session without valid credentials has no TURN
\* server set.
C27_TurnUrlAuthenticated ==
    \A e \in viewers_ :
        LET uri == peers[e[2]].turn_server
        IN /\ ( /\ turn.turn_configured_ /\ ~turn.use_cloudflare_turn_
                /\ turn.turn_config_.username # <<>> )
              => /\ AuthenticatedTurnUrl(uri)
                 /\ UrlCredentials(uri) =
                      turn.turn_config_.username \o <<":">> \o
                      turn.turn_config_.password
           /\ ( turn.turn_configured_ /\ turn.use_cloudflare_turn_ )
              => uri = <<>> \/ AuthenticatedTurnUrl(uri)

\* 48 hours, in seconds.
TtlLimit == 48 * 3600

\* C28: the TTL sent in every request to the issuer and used for
\* expires_at is 86400 s when no TTL is configured, and never more than
\* 48 hours, whatever CLOUDFLARE_TURN_TTL holds.
C28_TtlDefaultAndLimit ==
    /\ turn.request_ttl # <<>> =>
         /\ turn.request_ttl[1] <= TtlLimit
         /\ ( turn.env.file_ttl.kind = "unset" /\
              turn.env.env_ttl.kind = "unset" )
            => turn.request_ttl[1] = TTL_DEFAULT
    /\ turn.credentials_.valid =>
         turn.credentials_.expires_at - turn.now <= Seconds(TtlLimit)

\* The four types of frame the client dispatches.
DispatchedTypes == {"viewer-joined", "answer", "ice-candidate", "viewer-left"}

\* A frame that is no JSON, or whose type is none of the four.
ForeignFrame(f) ==
    \/ f.root # "object"
    \/ f.type.kind # "string"
    \/ f.type.text \notin DispatchedTypes

\* The invocation the wire protocol asks for a frame of one of the four
\* types.
ExpectedCall(f) ==
    CASE f.type.text = "viewer-joined" ->
             Call("on_viewer_joined_", <<f.viewer_id.text>>)
      [] f.type.text = "answer" ->
             Call("on_answer_", <<f.from.text, f.sdp.text>>)
      [] f.type.text = "ice-candidate" ->
             Call("on_ice_candidate_",
                  <<f.from.text, f.candidate.text,
                    ToString(f.sdpMLineIndex.n)>>)
      [] OTHER -> Call("on_viewer_left_", <<f.viewer_id.text>>)

\* C29: every frame invokes at most one callback, the one of its type
\* with the members of the frame as arguments; a frame that is no valid
\* JSON or whose type is none of the four invokes no callback and changes
\* nothing (the process goes on as it was).
C29_OneCallbackByType ==
    \A i \in 1..Len(client.log) :
        LET f == client.log[i].frame
            invoked == client.log[i].invoked
        IN /\ Len(invoked) <= 1
           /\ ~ForeignFrame(f) => invoked = <<ExpectedCall(f)>>
           /\ ForeignFrame(f) => invoked = <<>> /\ ~crashed

\* Both branches of an attachment connected: both tee request ports held,
\* tee -> queue and queue -> sink linked for video and audio, the elements
\* in the pipeline.
FullyLinked(p) ==
    /\ p.alive
    /\ p.tee_ports = TeePads /\ TeePads \subseteq p.pads
    /\ p.links = {"link_vq_wb", "link_aq_wb", "link_vt_vq", "link_at_aq"}
    /\ p.elems = {"webrtcbin_", "video_queue_", "audio_queue_"}
    /\ p.in_bin

\* Nothing of an attachment left: no port held on a tee, no pad, no link,
\* no element.
FullyDetached(p) ==
    /\ p.tee_ports = {} /\ p.pads = {}
    /\ p.links = {}
    /\ p.elems = {} /\ ~p.in_bin

\* C30: whenever no thread is inside addViewer, removeViewer or stop, every
\* attachment recorded in viewers_ is fully linked and every other
\* attachment is fully detached.
C30_LinkedOrDetached ==
    (mutex_ = "none" /\ ~crashed) =>
        \A h \in 1..Len(peers) :
            IF \E e \in viewers_ : e[2] = h
            THEN FullyLinked(peers[h])
            ELSE FullyDetached(peers[h])

\* The links of a peer's branches.
BranchLinks == {"link_vq_wb", "link_aq_wb", "link_vt_vq", "link_at_aq"}

C32_DetachOrder ==
    [][ \A h \in Handles :
          LET p == peers[h]
              q == peers'[h]
          IN (h = sig.h /\ p.alive /\ q.alive) =>
             /\ q.links # p.links => ~p.signals /\ p.probes = {}
             /\ q.tee_ports # p.tee_ports => p.links = {}
             /\ q.synced # p.synced => p.pads \cap TeePads = {}
             /\ q.elems # p.elems =>
                  p.synced = {} /\ "main_loop_spin" \in sig.effects
      ]_vars

\* The detach of a fully linked viewer is at its last step: everything
\* was unlinked, released and set to NULL, the spin is over and the
\* elements are still in the pipeline.
C32_Witness ==
    /\ sig.type = "viewer-left" /\ sig.pc = "bin_remove"
    /\ peers[sig.h].alive /\ peers[sig.h].cleaned_up_
    /\ peers[sig.h].elems = {"webrtcbin_", "video_queue_", "audio_queue_"}
    /\ peers[sig.h].links = {} /\ peers[sig.h].tee_ports = {}
    /\ peers[sig.h].synced = {}
    /\ "main_loop_spin" \in sig.effects

\* C33: createOffer polls the transceivers at most 20 times, goes on
\* polling only while it read fewer than two, leaves the loop when it read
\* two or made its 20th poll, then issues one create-offer request and no
\* second one; every call that entered the loop returns with exactly one
\* request made.
C33_CreateOfferBounded ==
    /\ [] ( /\ sig.polls <= MAX_WAIT
            /\ sig.requests <= 1
            /\ (sig.pc = "co_loop" /\ sig.polls > 0) => sig.count < 2
            /\ (sig.pc = "co_emit") =>
                   (sig.count >= 2 \/ sig.polls = MAX_WAIT) /\ sig.requests = 0
            /\ (sig.pc = "ret" /\ sig.polls > 0) => sig.requests = 1 )
    /\ ( (sig.pc = "co_loop") ~> (sig.pc = "ret" /\ sig.requests = 1) )

\* createOffer returned after its 20th poll still read fewer than two
\* transceivers, and it made its request.
C33_Witness ==
    /\ sig.pc = "ret" /\ sig.polls = MAX_WAIT /\ sig.count < 2
    /\ sig.requests = 1
    /\ peers[sig.h].offer_pending

\* The messages sendIceCandidate makes of a gathered sequence for viewer v:
\* one for each non-empty candidate, in order.
RECURSIVE ExpectedOutbound(_, _)
ExpectedOutbound(gathered, v) ==
    IF gathered = <<>> THEN <<>>
    ELSE LET g == Head(gathered)
             rest == ExpectedOutbound(Tail(gathered), v)
         IN IF g.candidate = "" THEN rest
            ELSE <<sendIceCandidate(v, g.candidate, g.mlineindex)>> \o rest

OutboundTo(v) == SelectSeq(client.sent, LAMBDA m : m.to = v)

\* C34: the ice-candidate messages sent to a registered viewer are exactly
\* the non-empty candidates its session gathered, one message each, with
\* their mline indexes, in gathering order; no message goes to anyone else
\* and the empty candidate makes none.
C34_LocalCandidatesSent ==
    /\ \A v \in Viewers :
         ViewerExists(viewers_, v) =>
            OutboundTo(v) =
               ExpectedOutbound(peers[MapGet(viewers_, v)].gathered, v)
    /\ \A i \in 1..Len(client.sent) :
         ViewerExists(viewers_, client.sent[i].to)

C36_RegistriesCoherent ==
    /\ ~crashed
    /\ sig.pc = "idle" =>
         \A e \in viewer_peers_ :
            /\ peers[e[2]].alive
            /\ MapHas(viewers_, e[1])
            /\ MapGet(viewers_, e[1]) = e[2]

\* C37: once cleanup() of a peer has begun, the peer's flag
\* remote_description_set_ does not turn true again, and nothing more is
\* submitted to its element.
C37_QuietAfterCleanup ==
    [][ \A h \in Handles :
          (peers[h].alive /\ peers[h].cleaned_up_) =>
             /\ ~peers[h].remote_description_set_ =>
                    ~peers'[h].remote_description_set_
             /\ peers'[h].alive => peers'[h].submitted = peers[h].submitted
      ]_vars

\* C38: a live peer's flag remote_description_set_ is true only when
\* set-remote-description was applied, and its queued candidates are
\* flushed to the element only then.
C38_FlagMeansApplied ==
    \A h \in Handles :
        peers[h].alive =>
            /\ peers[h].remote_description_set_ => peers[h].remote_applied
            /\ peers[h].flushed => peers[h].remote_applied

SeqElems(s) == {s[i] : i \in 1..Len(s)}
NoRepeat(s) == \A i, j \in 1..Len(s) : s[i] = s[j] => i = j
FlushInProgress == \E t \in Callers : callers[t].pc = "sra_flush"

\* C39: on a session that is not cleaned up, every candidate handed to
\* addIceCandidate is either in the pending queue or submitted to the
\* element, never both and never twice; and when remote_description_set_ is
\* true and no setRemoteAnswer is between its store and its flush, the
\* queue is empty, so that every candidate received was submitted exactly
\* once.
C39_EachCandidateOnce ==
    LET p == peers[1] IN
    ~p.cleaned_up_ =>
        /\ NoRepeat(p.submitted \o p.queued_ice_candidates_)
        /\ SeqElems(p.submitted \o p.queued_ice_candidates_)
              = SeqElems(p.received)
        /\ (p.remote_description_set_ /\ ~FlushInProgress) =>
              /\ p.queued_ice_candidates_ = <<>>
              /\ Len(p.submitted) = Len(p.received)

\* Both candidates were submitted, one through the flush of the queue and
\* one directly, and every call has returned.
C39_Witness ==
    /\ \A t \in Callers : callers[t].pc = "idle"
    /\ peers[1].remote_description_set_
    /\ peers[1].flushed_n = 1
    /\ Len(peers[1].received) = MaxCand
    /\ Len(peers[1].submitted) = MaxCand

====
